---- MODULE Spec2Model ----
(***************************************************************************)
(* SheetFlow: background job manager (lib/excelWorker.js), worker thread   *)
(* (lib/excelWorkerThread.js), the convert-file request handler            *)
(* (lib/ipcHandlers.js with lib/converter.js), CSV cell serialization and  *)
(* parsing, and the paginated StreamingFileReader.                         *)
(***************************************************************************)
EXTENDS Integers, Sequences, FiniteSets, TLC

\* ------------------------------------------------------------------ bounds
MaxJobs == 2
MaxInFlight == 1
MaxRows == 3
MaxRowSize == 3
MaxRowLimit == 2
MaxSizeLimit == 1
MaxSheets == 2
MaxPyLines == 2
MaxPyRows == 1
MaxCellLen == 2
MaxFileLines == 5
MaxStartRow == 5
MaxPageSize == 3

MaxFiles == 4

MaxSheetNames == 2

MaxEstimatedRows == 10001

MaxNameLen == 3
\* pages of the largest file the viewer window is given
MaxViewerPages == 3
\* viewer windows open at once
MaxWindows == 2
\* rows of the largest worksheet convertSheetStreamingExcelJS is given
MaxStreamRows == 5

JobIds == 1..MaxJobs

VARIABLES
  workers,          \* ExcelWorkerManager.workers: ids in Map insertion order
  currentWorkerId,  \* ExcelWorkerManager.currentWorkerId
  promise,          \* per job: state of the promise returned by processExcelFile
  idReturned,       \* per job: the caller of processExcelFile has been given the id
  cancelled,        \* per job: number of 'cancelled' events emitted
  afterCancel,      \* per job: progress/worksheets emitted after 'cancelled'
  afterSettle,      \* per job: progress/worksheets emitted after the promise settled
  chan,             \* per job: messages posted by the worker, not yet dispatched
  wstate,           \* per job: state of the worker thread
  issued,           \* ids handed out, in submission order
  lastOp,           \* the manager operation or handler that ran last
  \* worker thread (ExcelProcessor)
  pc,               \* position in ExcelProcessor.process()
  options,          \* workerData.options: operation, maxRows, maxFileSize
  libs,             \* which of XLSX / ExcelJS could be required
  posts,            \* messages posted to the parent port, in order
  method,           \* result.method / this.method
  rows,             \* nonEmptyRows handed to the writer: serialized sizes
  loopI,            \* writeCSVWithSplitting: i
  currentRows,      \* writeCSVWithSplitting: currentRows.length
  currentSize,      \* writeCSVWithSplitting: currentSize
  fileIndex,        \* writeCSVWithSplitting: fileIndex
  files,            \* files: row count of each file written, in order
  fileNames,        \* files: part number in the path of each file written
  \* convert-file request handler
  cvPc,             \* position in the handler
  cvTotal,          \* validatedWorksheets.length
  cvIndex,          \* worksheets the loop has finished
  allFilesCreated,  \* allFilesCreated: the rows field of each record
  totalRowsAll,     \* totalRowsAll
  errors,           \* errors: index of each worksheet that failed
  converted,        \* worksheets for which convertSingleWorksheet returned
  cvResult,         \* the handler's return value
  attempts,         \* worksheets convertSingleWorksheet was called for, in order
  excelJSLoaded,    \* converter.js: ExcelJS is not null
  lastSheet,        \* the worksheet convertSingleWorksheet was last called for
  rejected,         \* the request a handler last refused in validation
  \* CSV cells
  csvPc,            \* idle, written, parsed
  csvWriter,        \* which serializer wrote the row
  csvRow,           \* the row of cell values handed to the writer
  csvCells,         \* the text each cell was serialized to
  csvLine,          \* the serialized row
  csvParsed,        \* parseCsvLine(csvLine)
  \* StreamingFileReader
  rdPc,             \* uninitialized (streamingReader is null) / initialized
  currentFile,      \* this.currentFile, 0 for null
  currentSheet,     \* this.currentSheet, 0 for null
  fileType,         \* this.fileType
  fileLines,        \* lines of the CSV file / rows of the sheet's range
  totalRows,        \* this.totalRows
  columns,          \* this.columns: whose header they came from, 0 for []
  liveReaders,      \* reader objects that hold a file
  session,          \* file of the session opened last, 0 once it ended
  rdLast,           \* outcome of the last viewer operation
  rdArgs,           \* arguments of the last readPage
  page,             \* value of the last readPage
  tile,             \* consecutive pages read from row 0 on
  \* analyzeWorksheets
  worksheetInfo,    \* the worksheet descriptor pushed last
  \* sanitizeSheetName
  snInput,          \* the value it was called with
  snResult,         \* what it returned or threw
  snAgain,          \* what it returned for its own result
  \* convert-file request handler on background workers
  bgPc,             \* idle, await (a job's promise), done
  bgTotal,          \* validatedWorksheets.length
  bgMaxRows,        \* options.maxRows, 0 when not given
  bgSheet,          \* position in validatedWorksheets of the loop's worksheet
  bgJob,            \* id of the job the handler awaits, 0 for none
  bgFiles,          \* allFilesCreated: worksheet and rows of each record
  bgTotalRows,      \* totalRowsAll
  bgErrors,         \* errors: position of each worksheet that failed
  bgEvents,         \* 'conversion-progress' events sent, in order, each with
                    \* the worksheets done and converted when it was sent
  bgResult,         \* the handler's return value
  \* convertSheetStreamingExcelJS
  sePc,             \* idle, rows (in worksheet.eachRow), returned, thrown
  seMaxRows,        \* maxRows, 0 when not given
  seSeen,           \* rows eachRow has visited
  nonEmptyRowCount, \* nonEmptyRowCount
  seFileIndex,      \* fileIndex
  currentFileRows,  \* currentFileRows
  writeStream,      \* writeStream is not null
  filesCreated,     \* filesCreated: part and rows of each record
  seWritten,        \* rows written to each file, in order
  \* viewer window (viewer.js)
  vwFile,           \* currentFile, 0 for null
  vwSheet,          \* currentSheet, 0 for null
  currentPageNum,   \* currentPageNum
  totalRowCount,    \* totalRowCount
  vwRequest,        \* the page request sent last
  \* viewer windows sharing the reader
  wnFile,           \* per window: the file its last open gave it, 0 for none
  wnLast            \* the window and call that ran last, and the file served

mgrVars == <<workers, currentWorkerId, promise, idReturned, cancelled,
             afterCancel, afterSettle, chan, wstate, issued, lastOp>>

wkVars == <<pc, options, libs, posts, method, rows, loopI, currentRows,
            currentSize, fileIndex, files, fileNames>>

cvVars == <<cvPc, cvTotal, cvIndex, allFilesCreated, totalRowsAll, errors,
            converted, cvResult, attempts, excelJSLoaded, lastSheet, rejected>>

csvVars == <<csvPc, csvWriter, csvRow, csvCells, csvLine, csvParsed>>

rdVars == <<rdPc, currentFile, currentSheet, fileType, fileLines, totalRows,
            columns, liveReaders, session, rdLast, rdArgs, page, tile>>

anVars == <<worksheetInfo>>

snVars == <<snInput, snResult, snAgain>>

bgVars == <<bgPc, bgTotal, bgMaxRows, bgSheet, bgJob, bgFiles, bgTotalRows,
            bgErrors, bgEvents, bgResult>>

seVars == <<sePc, seMaxRows, seSeen, nonEmptyRowCount, seFileIndex,
            currentFileRows, writeStream, filesCreated, seWritten>>

vwVars == <<vwFile, vwSheet, currentPageNum, totalRowCount, vwRequest>>

wnVars == <<wnFile, wnLast>>

vars == <<mgrVars, wkVars, cvVars, csvVars, rdVars, anVars, snVars,
          bgVars, seVars, vwVars, wnVars>>

extVars == <<bgVars, seVars, vwVars, wnVars>>

baseVars == <<mgrVars, wkVars, cvVars, csvVars, rdVars, anVars, snVars>>

notMgr == <<wkVars, cvVars, csvVars, rdVars, anVars, snVars, extVars>>

notWk == <<mgrVars, cvVars, csvVars, rdVars, anVars, snVars, extVars>>

notCv == <<mgrVars, wkVars, csvVars, rdVars, anVars, snVars, extVars>>

notCsv == <<mgrVars, wkVars, cvVars, rdVars, anVars, snVars, extVars>>

notRd == <<mgrVars, wkVars, cvVars, csvVars, anVars, snVars, extVars>>

notAn == <<mgrVars, wkVars, cvVars, csvVars, rdVars, snVars, extVars>>

notSn == <<mgrVars, wkVars, cvVars, csvVars, rdVars, anVars, extVars>>

\* ------------------------------------------------------------- helpers
Range(s) == {s[k] : k \in 1..Len(s)}

RECURSIVE Without(_, _)
Without(s, x) ==
  IF s = <<>> THEN <<>>
  ELSE IF Head(s) = x THEN Without(Tail(s), x)
       ELSE <<Head(s)>> \o Without(Tail(s), x)

RECURSIVE SumLen(_, _)
SumLen(f, n) == IF n = 0 THEN 0 ELSE Len(f[n]) + SumLen(f, n - 1)

InFlight == SumLen(chan, MaxJobs)

\* lastOp: the call and the number of live-job entries it found
Op(name, n) == [op |-> name, found |-> n]

Other == Op("other", 0)

Settled(p) == p \in {"resolved", "rejected"}

\* ------------------------------------------------ ExcelWorkerManager
\* variant: the id is derived from the size of the live-job table
NextWorkerId_fromSize(cur, ws) == Len(ws) + 1

\* const workerId = ++this.currentWorkerId
NextWorkerId(cur, ws) == cur + 1

\* this.workers.get(workerId) is truthy
HasWorker(ws, id) == id \in Range(ws)

\* variant: cleanup leaves the entry in the table
cleanup_keep(ws, id) == ws

\* variant: cleanup empties the whole table
cleanup_clearAll(ws, id) == <<>>

\* cleanup(workerId): delete the entry when present
cleanup(ws, id) == IF HasWorker(ws, id) THEN Without(ws, id) ELSE ws

\* resolve()/reject() settle a promise once; later calls have no effect
settle(p, outcome) == IF p = "pending" THEN outcome ELSE p

\* worker.terminate(): a live thread is stopped and will report exit code 1
terminate(w) == IF w \in {"running", "idle"} THEN "exiting" ELSE w

\* variant: cancelWorker without the `if (worker)` test
cancelWorkerOp_unguarded(m, id) ==
  [workers   |-> cleanup(m.workers, id),
   wstate    |-> [m.wstate EXCEPT ![id] = terminate(@)],
   cancelled |-> [m.cancelled EXCEPT ![id] = @ + 1]]

\* cancelWorker(workerId) on the manager state m
cancelWorkerOp(m, id) ==
  IF HasWorker(m.workers, id)
  THEN [workers   |-> cleanup(m.workers, id),
        wstate    |-> [m.wstate EXCEPT ![id] = terminate(@)],
        cancelled |-> [m.cancelled EXCEPT ![id] = @ + 1]]
  ELSE m

\* for (const [workerId] of this.workers) this.cancelWorker(workerId)
RECURSIVE cancelEach(_, _)
cancelEach(m, ids) ==
  IF ids = <<>> THEN m
  ELSE cancelEach(cancelWorkerOp(m, Head(ids)), Tail(ids))

\* variant: the loop stops after the first entry
cancelAllOp_firstOnly(m) ==
  IF m.workers = <<>> THEN m ELSE cancelWorkerOp(m, Head(m.workers))

cancelAllOp(m) == cancelEach(m, m.workers)

Mgr == [workers |-> workers, wstate |-> wstate, cancelled |-> cancelled]

MgrInit ==
  /\ workers = <<>>
  /\ currentWorkerId = 0
  /\ promise = [i \in JobIds |-> "none"]
  /\ idReturned = [i \in JobIds |-> FALSE]
  /\ cancelled = [i \in JobIds |-> 0]
  /\ afterCancel = [i \in JobIds |-> FALSE]
  /\ afterSettle = [i \in JobIds |-> FALSE]
  /\ chan = [i \in JobIds |-> <<>>]
  /\ wstate = [i \in JobIds |-> "none"]
  /\ issued = <<>>
  /\ lastOp = Op("init", 0)

\* processExcelFile: allocate the id, start the worker, store it, post 'start';
\* the promise it returns is fulfilled with the id only by a 'success' message
StartJob ==
  /\ currentWorkerId < MaxJobs
  /\ LET id == NextWorkerId(currentWorkerId, workers) IN
       /\ id \in JobIds
       /\ currentWorkerId' = id
       /\ workers' = IF HasWorker(workers, id) THEN workers
                     ELSE Append(workers, id)
       /\ wstate' = [wstate EXCEPT ![id] = "running"]
       /\ promise' = [promise EXCEPT ![id] = "pending"]
       /\ issued' = Append(issued, id)
  /\ lastOp' = Other
  /\ UNCHANGED <<idReturned, cancelled, afterCancel, afterSettle, chan>>

processExcelFile ==
  /\ StartJob
  /\ UNCHANGED notMgr

\* worker thread: sendProgress / sendWorksheets
WorkerPost(i, type) ==
  /\ wstate[i] = "running"
  /\ InFlight < MaxInFlight
  /\ chan' = [chan EXCEPT ![i] = Append(@, type)]
  /\ UNCHANGED notMgr
  /\ lastOp' = Other
  /\ UNCHANGED <<workers, currentWorkerId, promise, idReturned, cancelled,
                 afterCancel, afterSettle, wstate, issued>>

WorkerSendProgress(i) == WorkerPost(i, "progress")

WorkerSendWorksheets(i) == WorkerPost(i, "worksheets")

\* worker thread: process() ends with sendSuccess or (catch) sendError; the
\* thread stays alive on its parentPort listener
WorkerFinish(i, type) ==
  /\ wstate[i] = "running"
  /\ chan' = [chan EXCEPT ![i] = Append(@, type)]
  /\ wstate' = [wstate EXCEPT ![i] = "idle"]
  /\ UNCHANGED notMgr
  /\ lastOp' = Other
  /\ UNCHANGED <<workers, currentWorkerId, promise, idReturned, cancelled,
                 afterCancel, afterSettle, issued>>

WorkerSendSuccess(i) == WorkerFinish(i, "success")

WorkerSendError(i) == WorkerFinish(i, "error")

\* worker thread: uncaughtException / unhandledRejection handler posts an
\* 'error' message and calls process.exit(1)
WorkerUncaught(i) ==
  /\ wstate[i] = "running"
  /\ chan' = [chan EXCEPT ![i] = Append(@, "error")]
  /\ wstate' = [wstate EXCEPT ![i] = "exiting"]
  /\ UNCHANGED notMgr
  /\ lastOp' = Other
  /\ UNCHANGED <<workers, currentWorkerId, promise, idReturned, cancelled,
                 afterCancel, afterSettle, issued>>

\* the thread dies with an error the runtime reports through 'error'
WorkerCrash(i) ==
  /\ wstate[i] = "running"
  /\ wstate' = [wstate EXCEPT ![i] = "crashed"]
  /\ UNCHANGED notMgr
  /\ lastOp' = Other
  /\ UNCHANGED <<workers, currentWorkerId, promise, idReturned, cancelled,
                 afterCancel, afterSettle, chan, issued>>

\* worker.on('message'): dispatch on message.type
OnMessage(i) ==
  /\ chan[i] # <<>>
  /\ wstate[i] # "exited"
  /\ LET type == Head(chan[i]) IN
       /\ chan' = [chan EXCEPT ![i] = Tail(@)]
       /\ CASE type \in {"progress", "worksheets"} ->
                 /\ afterCancel' = [afterCancel EXCEPT
                                      ![i] = @ \/ cancelled[i] > 0]
                 /\ afterSettle' = [afterSettle EXCEPT
                                      ![i] = @ \/ Settled(promise[i])]
                 /\ UNCHANGED <<workers, promise, idReturned>>
            [] type = "success" ->
                 /\ workers' = cleanup(workers, i)
                 /\ promise' = [promise EXCEPT ![i] = settle(@, "resolved")]
                 /\ idReturned' = [idReturned EXCEPT
                                    ![i] = @ \/ promise[i] = "pending"]
                 /\ UNCHANGED <<afterCancel, afterSettle>>
            [] type = "error" ->
                 /\ workers' = cleanup(workers, i)
                 /\ promise' = [promise EXCEPT ![i] = settle(@, "rejected")]
                 /\ UNCHANGED <<idReturned, afterCancel, afterSettle>>
  /\ UNCHANGED notMgr
  /\ lastOp' = Other
  /\ UNCHANGED <<currentWorkerId, cancelled, wstate, issued>>

\* worker.on('error')
OnError(i) ==
  /\ wstate[i] = "crashed"
  /\ workers' = cleanup(workers, i)
  /\ promise' = [promise EXCEPT ![i] = settle(@, "rejected")]
  /\ wstate' = [wstate EXCEPT ![i] = "exiting"]
  /\ UNCHANGED notMgr
  /\ lastOp' = Other
  /\ UNCHANGED <<currentWorkerId, idReturned, cancelled, afterCancel,
                 afterSettle, chan, issued>>

\* exit code reported for a thread that stopped: process.exit(1), a fatal
\* error and terminate() all report 1
ExitCode(w) == IF w = "exiting" THEN 1 ELSE 0

\* worker.on('exit'): messages not dispatched by now are never dispatched
OnExit(i) ==
  /\ wstate[i] = "exiting"
  /\ LET code == ExitCode(wstate[i]) IN
       IF code # 0
       THEN /\ workers' = cleanup(workers, i)
            /\ promise' = [promise EXCEPT ![i] = settle(@, "rejected")]
       ELSE UNCHANGED <<workers, promise>>
  /\ wstate' = [wstate EXCEPT ![i] = "exited"]
  /\ chan' = [chan EXCEPT ![i] = <<>>]
  /\ UNCHANGED notMgr
  /\ lastOp' = Other
  /\ UNCHANGED <<currentWorkerId, idReturned, cancelled, afterCancel,
                 afterSettle, issued>>

\* cancelWorker(workerId), for any id the caller may pass
cancelWorker(id) ==
  /\ LET m == cancelWorkerOp(Mgr, id) IN
       /\ workers' = m.workers
       /\ wstate' = m.wstate
       /\ cancelled' = m.cancelled
  /\ UNCHANGED notMgr
  /\ lastOp' = Op("cancelWorker", IF HasWorker(workers, id) THEN 1 ELSE 0)
  /\ UNCHANGED <<currentWorkerId, promise, idReturned, afterCancel,
                 afterSettle, chan, issued>>

\* cancelAllWorkers() (also shutdown())
cancelAllWorkers ==
  /\ LET m == cancelAllOp(Mgr) IN
       /\ workers' = m.workers
       /\ wstate' = m.wstate
       /\ cancelled' = m.cancelled
  /\ UNCHANGED notMgr
  /\ lastOp' = Op("cancelAllWorkers", Len(workers))
  /\ UNCHANGED <<currentWorkerId, promise, idReturned, afterCancel,
                 afterSettle, chan, issued>>

\* ------------------------------------------- worker thread: ExcelProcessor
RECURSIVE Gcd(_, _)
Gcd(a, b) == IF b = 0 THEN a ELSE Gcd(b, a % b)

RECURSIVE LcmUpTo(_)
LcmUpTo(n) == IF n <= 1 THEN 1 ELSE (LcmUpTo(n - 1) * n) \div Gcd(LcmUpTo(n - 1), n)

\* percents are carried multiplied by Scale, so that 85 + (i / rows.length) * 10
\* is exact for every rows.length up to MaxRows
Scale == LcmUpTo(MaxRows)

MiB == 1048576

\* sendProgress(progress, message)
Progress(p) == [type |-> "progress", progress |-> p * Scale]

Msg(t) == [type |-> t, progress |-> 0]

\* 85 + (i / rows.length) * 10
SplitProgress(i, n) ==
  [type |-> "progress", progress |-> 85 * Scale + (i * 10 * Scale) \div n]

ProgressLog == SelectSeq(posts, LAMBDA m : m.type = "progress")

\* a row as the writer sees it: the byte size of csvRow + '\n', and whether
\* every cell is null, undefined or ''
RowRec == [size : {k * (MiB \div 2) : k \in 1..MaxRowSize}, empty : BOOLEAN]

RowSeqs == UNION {[1..n -> RowRec] : n \in 0..MaxRows}

\* data.filter(row => row.some(cell => cell !== null && ... && cell !== ''))
RECURSIVE NonEmptySizes(_)
NonEmptySizes(data) ==
  IF data = <<>> THEN <<>>
  ELSE IF Head(data).empty THEN NonEmptySizes(Tail(data))
       ELSE <<Head(data).size>> \o NonEmptySizes(Tail(data))

WkInit ==
  /\ pc = "start"
  /\ options = [operation |-> "getWorksheets", maxRows |-> 0, maxFileSize |-> 0]
  /\ libs = [xlsx |-> TRUE, exceljs |-> TRUE]
  /\ posts = <<>>
  /\ method = "none"
  /\ rows = <<>>
  /\ loopI = 0
  /\ currentRows = 0
  /\ currentSize = 0
  /\ fileIndex = 1
  /\ files = <<>>
  /\ fileNames = <<>>

\* process(): the 'start' message arrives; first progress of either operation
Process ==
  /\ pc = "start"
  /\ \E op \in {"getWorksheets", "convertToCSV"}, mr \in 0..MaxRowLimit,
        ms \in 0..MaxSizeLimit, x \in BOOLEAN, e \in BOOLEAN :
       /\ options' = [operation |-> op, maxRows |-> mr, maxFileSize |-> ms]
       /\ libs' = [xlsx |-> x, exceljs |-> e]
  /\ posts' = Append(posts, Progress(0))
  /\ pc' = "validateFile"
  /\ UNCHANGED <<method, rows, loopI, currentRows, currentSize, fileIndex, files, fileNames>>
  /\ UNCHANGED notWk

\* validateFile()
ValidateFile ==
  /\ pc = "validateFile"
  /\ \E outcome \in {"ok", "missing", "notFile", "badExtension"} :
       IF outcome = "ok"
       THEN /\ posts' = posts \o <<Progress(5), Progress(10)>>
            /\ pc' = IF options.operation = "getWorksheets"
                     THEN "processWorksheets" ELSE "convertToCSV"
       ELSE /\ posts' = Append(posts, Progress(5))
            /\ pc' = "catch"
  /\ UNCHANGED <<options, libs, method, rows, loopI, currentRows, currentSize,
                 fileIndex, files, fileNames>>
  /\ UNCHANGED notWk

\* processWorksheets(), up to the call of tryExcelJS
ProcessWorksheets ==
  /\ pc = "processWorksheets"
  /\ \E readOK \in BOOLEAN :
       IF libs.xlsx
       THEN IF readOK
            THEN /\ posts' = posts \o <<Progress(20), Progress(30), Progress(60),
                                        Progress(80), Msg("worksheets"),
                                        Progress(100)>>
                 /\ method' = "XLSX"
                 /\ pc' = "analyzeWorksheets"
            ELSE /\ posts' = posts \o <<Progress(20), Progress(30), Progress(40)>>
                 /\ pc' = IF libs.exceljs THEN "tryExcelJS" ELSE "catch"
                 /\ UNCHANGED method
       ELSE /\ posts' = Append(posts, Progress(20))
            /\ pc' = IF libs.exceljs THEN "tryExcelJS" ELSE "catch"
            /\ UNCHANGED method
  /\ UNCHANGED <<options, libs, rows, loopI, currentRows, currentSize,
                 fileIndex, files, fileNames>>
  /\ UNCHANGED notWk

\* tryExcelJS(previousError)
TryExcelJS ==
  /\ pc = "tryExcelJS"
  /\ \E readOK \in BOOLEAN :
       IF readOK
       THEN /\ posts' = posts \o <<Progress(50), Progress(70), Progress(90),
                                   Msg("worksheets"), Progress(100)>>
            /\ method' = "ExcelJS"
            /\ pc' = "analyzeWorksheets"
       ELSE /\ posts' = Append(posts, Progress(50))
            /\ pc' = "catch"
            /\ UNCHANGED method
  /\ UNCHANGED <<options, libs, rows, loopI, currentRows, currentSize,
                 fileIndex, files, fileNames>>
  /\ UNCHANGED notWk

\* analyzeWorksheets(result): result.workbook is set on every path that gets
\* here; a failing analysis is swallowed
AnalyzeWorksheets ==
  /\ pc = "analyzeWorksheets"
  /\ \E analysisOK \in BOOLEAN :
       posts' = IF analysisOK
                THEN posts \o <<Progress(85), Msg("worksheets")>>
                ELSE Append(posts, Progress(85))
  /\ pc' = "sendSuccess"
  /\ UNCHANGED <<options, libs, method, rows, loopI, currentRows, currentSize,
                 fileIndex, files, fileNames>>
  /\ UNCHANGED notWk

\* convertToCSV(), up to the call of loadWorkbook (this.workbook is unset in
\* a fresh processor)
ConvertToCSV ==
  /\ pc = "convertToCSV"
  /\ posts' = posts \o <<Progress(10), Progress(20)>>
  /\ pc' = "loadWorkbook"
  /\ UNCHANGED <<options, libs, method, rows, loopI, currentRows, currentSize,
                 fileIndex, files, fileNames>>
  /\ UNCHANGED notWk

\* loadWorkbook(), then convertToCSV's progress 30 when it returns
LoadWorkbook ==
  /\ pc = "loadWorkbook"
  /\ \E xlsxOK \in BOOLEAN, exceljsOK \in BOOLEAN :
       LET first == IF libs.xlsx THEN <<Progress(25)>> ELSE <<>> IN
       IF libs.xlsx /\ xlsxOK
       THEN /\ posts' = posts \o first \o <<Progress(30)>>
            /\ method' = "XLSX"
            /\ pc' = "convertWithXLSX"
       ELSE IF libs.exceljs
            THEN IF exceljsOK
                 THEN /\ posts' = posts \o first \o <<Progress(25), Progress(30)>>
                      /\ method' = "ExcelJS"
                      /\ pc' = "convertWithExcelJS"
                 ELSE /\ posts' = posts \o first \o <<Progress(25)>>
                      /\ pc' = "catch"
                      /\ UNCHANGED method
            ELSE /\ posts' = posts \o first
                 /\ pc' = "catch"
                 /\ UNCHANGED method
  /\ UNCHANGED <<options, libs, rows, loopI, currentRows, currentSize,
                 fileIndex, files, fileNames>>
  /\ UNCHANGED notWk

\* if (maxRows || maxFileSize) writeCSVWithSplitting else writeCSVSingle
WriterFor(o) ==
  IF o.maxRows # 0 \/ o.maxFileSize # 0 THEN "writeCSVWithSplitting"
  ELSE "writeCSVSingle"

\* convertWithXLSX(): sheet lookup, sheet_to_json, empty-row filter
ConvertWithXLSX ==
  /\ pc = "convertWithXLSX"
  /\ \E sheetFound \in BOOLEAN, data \in RowSeqs :
       IF ~sheetFound
       THEN /\ pc' = "catch"
            /\ UNCHANGED <<posts, rows>>
       ELSE IF data = <<>>
       THEN /\ posts' = Append(posts, Progress(40))
            /\ pc' = "catch"
            /\ UNCHANGED rows
       ELSE IF NonEmptySizes(data) = <<>>
       THEN /\ posts' = posts \o <<Progress(40), Progress(60)>>
            /\ pc' = "catch"
            /\ UNCHANGED rows
       ELSE /\ posts' = posts \o <<Progress(40), Progress(60), Progress(80)>>
            /\ rows' = NonEmptySizes(data)
            /\ pc' = WriterFor(options)
  /\ UNCHANGED <<options, libs, method, loopI, currentRows, currentSize,
                 fileIndex, files, fileNames>>
  /\ UNCHANGED notWk

\* convertWithExcelJS(): as above, without the test for no non-empty rows
ConvertWithExcelJS ==
  /\ pc = "convertWithExcelJS"
  /\ \E sheetFound \in BOOLEAN, data \in RowSeqs :
       IF ~sheetFound
       THEN /\ pc' = "catch"
            /\ UNCHANGED <<posts, rows>>
       ELSE IF data = <<>>
       THEN /\ posts' = Append(posts, Progress(40))
            /\ pc' = "catch"
            /\ UNCHANGED rows
       ELSE /\ posts' = posts \o <<Progress(40), Progress(60), Progress(80)>>
            /\ rows' = NonEmptySizes(data)
            /\ pc' = WriterFor(options)
  /\ UNCHANGED <<options, libs, method, loopI, currentRows, currentSize,
                 fileIndex, files, fileNames>>
  /\ UNCHANGED notWk

\* the part number in a file's name: 0 for outputPath itself, n for
\* `${name}_part${n}${ext}`
OutputPath == 0

\* getChunkFilePath(originalPath, index)
getChunkFilePath(index) == index

\* variant: one file record per row
SingleFiles_perRow(rs) == [k \in 1..Len(rs) |-> 1]

\* writeCSVSingle: files: [{ path: outputPath, rows: rows.length }]
SingleFiles(rs) == <<Len(rs)>>

\* writeCSVSingle(rows, outputPath)
WriteCSVSingle ==
  /\ pc = "writeCSVSingle"
  /\ posts' = posts \o <<Progress(90), Progress(100)>>
  /\ files' = SingleFiles(rows)
  /\ fileNames' = <<OutputPath>>
  /\ pc' = "sendSuccess"
  /\ UNCHANGED <<options, libs, method, rows, loopI, currentRows, currentSize,
                 fileIndex>>
  /\ UNCHANGED notWk

\* writeCSVWithSplitting(): initialisation
SplitStart ==
  /\ pc = "writeCSVWithSplitting"
  /\ files' = <<>>
  /\ fileNames' = <<>>
  /\ fileIndex' = 1
  /\ currentRows' = 0
  /\ currentSize' = 0
  /\ loopI' = 0
  /\ posts' = Append(posts, Progress(85))
  /\ pc' = "splitLoop"
  /\ UNCHANGED <<options, libs, method, rows>>
  /\ UNCHANGED notWk

\* const maxSizeBytes = maxFileSize ? maxFileSize * 1024 * 1024 : null
MaxSizeBytes(o) == o.maxFileSize * MiB

\* variant: the row limit is tested with > in place of >=
WouldExceed_strict(o, nRows, size, rowSize) ==
  \/ (o.maxRows # 0 /\ nRows > o.maxRows)
  \/ (o.maxFileSize # 0 /\ size + rowSize > o.maxFileSize * MiB)

\* variant: the size limit is tested with >= in place of >
WouldExceed_sizeInclusive(o, nRows, size, rowSize) ==
  \/ (o.maxRows # 0 /\ nRows >= o.maxRows)
  \/ (o.maxFileSize # 0 /\ size + rowSize >= o.maxFileSize * MiB)

\* wouldExceedRows || wouldExceedSize, for a row of rowSize bytes
WouldExceed(o, nRows, size, rowSize) ==
  \/ (o.maxRows # 0 /\ nRows >= o.maxRows)
  \/ (o.maxFileSize # 0 /\ size + rowSize > MaxSizeBytes(o))

\* writeCSVWithSplitting(): one iteration of the loop over rows
SplitRow ==
  /\ pc = "splitLoop"
  /\ loopI < Len(rows)
  /\ LET rowSize == rows[loopI + 1]
         flush == currentRows > 0
                    /\ WouldExceed(options, currentRows, currentSize, rowSize)
     IN  IF flush
         THEN /\ files' = Append(files, currentRows)
              /\ fileNames' = Append(fileNames, getChunkFilePath(fileIndex))
              /\ posts' = Append(posts, SplitProgress(loopI, Len(rows)))
              /\ fileIndex' = fileIndex + 1
              /\ currentRows' = 1
              /\ currentSize' = rowSize
         ELSE /\ currentRows' = currentRows + 1
              /\ currentSize' = currentSize + rowSize
              /\ UNCHANGED <<files, fileNames, posts, fileIndex>>
  /\ loopI' = loopI + 1
  /\ UNCHANGED <<pc, options, libs, method, rows>>
  /\ UNCHANGED notWk

\* writeCSVWithSplitting(): remaining rows, final progress
SplitEnd ==
  /\ pc = "splitLoop"
  /\ loopI = Len(rows)
  /\ files' = IF currentRows > 0 THEN Append(files, currentRows) ELSE files
  /\ fileNames' = IF currentRows > 0
                  THEN Append(fileNames, IF fileIndex = 1 THEN OutputPath
                                         ELSE getChunkFilePath(fileIndex))
                  ELSE fileNames
  /\ posts' = Append(posts, Progress(100))
  /\ pc' = "sendSuccess"
  /\ UNCHANGED <<options, libs, method, rows, loopI, currentRows, currentSize,
                 fileIndex>>
  /\ UNCHANGED notWk

\* process(): sendSuccess(result)
SendSuccess ==
  /\ pc = "sendSuccess"
  /\ posts' = Append(posts, Msg("success"))
  /\ pc' = "done"
  /\ UNCHANGED <<options, libs, method, rows, loopI, currentRows, currentSize,
                 fileIndex, files, fileNames>>
  /\ UNCHANGED notWk

\* process(): catch (error) { this.sendError(error) }
SendError ==
  /\ pc = "catch"
  /\ posts' = Append(posts, Msg("error"))
  /\ pc' = "done"
  /\ UNCHANGED <<options, libs, method, rows, loopI, currentRows, currentSize,
                 fileIndex, files, fileNames>>
  /\ UNCHANGED notWk

NextWorker ==
  \/ Process
  \/ ValidateFile
  \/ ProcessWorksheets
  \/ TryExcelJS
  \/ AnalyzeWorksheets
  \/ ConvertToCSV
  \/ LoadWorkbook
  \/ ConvertWithXLSX
  \/ ConvertWithExcelJS
  \/ WriteCSVSingle
  \/ SplitStart
  \/ SplitRow
  \/ SplitEnd
  \/ SendSuccess
  \/ SendError

\* ------------------------------------------ security.js: validation
Files == 1..MaxFiles

\* the extensions of the files at hand, file f having extension ExtOf(f)
FileExts == <<".xlsx", ".xlsm", ".csv", ".txt", ".xls">>

ExtOf(f) == FileExts[((f - 1) % Len(FileExts)) + 1]

\* a path handed to a handler: the file it names, its extension, and what
\* fs.existsSync / fs.statSync find there (invalid: not a non-empty string)
Paths ==
  {[file |-> f, ext |-> ExtOf(f), status |-> st] :
     f \in Files, st \in {"file", "missing", "directory", "invalid"}}

\* validateFilePath(filePath): "ok" when it returns the path, else the
\* message of the error it throws
validateFilePath(p) ==
  IF p.status = "invalid" THEN "Invalid file path"
  ELSE IF p.status = "missing" THEN "File does not exist"
  ELSE IF p.status = "directory" THEN "Path is not a file"
  ELSE IF p.ext \notin {".xlsx", ".xls", ".xlsm"} THEN "Invalid file type"
  ELSE "ok"

\* the paths validateFilePath returns, and those it throws on
ValidPaths == {p \in Paths : validateFilePath(p) = "ok"}

InvalidPaths == Paths \ ValidPaths

\* the outputDir of a convert-file request: '' or what the path names
OutputDirs == {"", "ok", "missing", "file", "readonly"}

\* validateDirectoryPath(dirPath)
validateDirectoryPath(d) ==
  IF d = "missing" THEN "Directory does not exist"
  ELSE IF d = "file" THEN "Path is not a directory"
  ELSE IF d = "readonly" THEN "Directory is not writable"
  ELSE "ok"

\* the worksheets of a convert-file request: not an array, an array of n
\* names, an array with an entry that is neither a string nor has a name, or
\* one with a name sanitizeSheetName throws on
WorksheetArgs ==
  {[kind |-> k, n |-> 0] : k \in {"missing", "badFormat", "badName"}}
    \cup {[kind |-> "names", n |-> n] : n \in 0..MaxSheets}

ConvertRequests ==
  [inputFile : Paths, outputDir : OutputDirs, worksheets : WorksheetArgs]

\* convert-file: the validation at the head of the handler, "ok" or the
\* message of the first error thrown
validateRequest(req) ==
  IF validateFilePath(req.inputFile) # "ok" THEN validateFilePath(req.inputFile)
  ELSE IF req.outputDir # "" /\ validateDirectoryPath(req.outputDir) # "ok"
  THEN validateDirectoryPath(req.outputDir)
  ELSE IF req.worksheets.kind = "missing"
          \/ (req.worksheets.kind = "names" /\ req.worksheets.n = 0)
  THEN "Please select at least one worksheet to convert"
  ELSE IF req.worksheets.kind = "badFormat" THEN "Invalid worksheet name format"
  ELSE IF req.worksheets.kind = "badName" THEN "Invalid sheet name"
  ELSE "ok"

\* what a handler refused, and the error it answered with
Refused(handler, error) == [handler |-> handler, error |-> error]

NoRequest == Refused("none", "")

\* variant: the handler goes on whatever validation said
Reached_always(v) == TRUE

\* the statements after the validation are reached when no validation threw
Reached(v) == v = "ok"

\* --------------------------------- convert-file handler and converter.js
\* a Number that is NaN
NaN == 0 - 1

\* a + b on Numbers
Plus(a, b) == IF a = NaN \/ b = NaN THEN NaN ELSE a + b

\* one line the engine printed: 'SUCCESS: <num> rows' or 'Created <path>
\* with <num> rows'; num is decimal digits of value n, or (literal) the text
\* of a backslash followed by the letter d
PyLine == [kind : {"SUCCESS", "Created"}, literal : BOOLEAN, n : 1..MaxPyRows]

PyStdout == UNION {[1..k -> PyLine] : k \in 0..MaxPyLines}

\* parseInt of the captured group
ParseInt(line) == IF line.literal THEN NaN ELSE line.n

\* /SUCCESS: (\\d+) rows/ : the pattern source has an escaped backslash, so
\* the group matches a backslash followed by one or more letters d
MatchesSuccess(line) == line.kind = "SUCCESS" /\ line.literal

\* /Created (.+?) with (\\d+) rows/g
MatchesCreated(line) == line.kind = "Created" /\ line.literal

\* stdout.match(...): first match, else totalRows = 0
RECURSIVE PyTotalRows(_)
PyTotalRows(out) ==
  IF out = <<>> THEN 0
  ELSE IF MatchesSuccess(Head(out)) THEN ParseInt(Head(out))
       ELSE PyTotalRows(Tail(out))

\* stdout.matchAll(...): one file record per match
RECURSIVE PyFiles(_)
PyFiles(out) ==
  IF out = <<>> THEN <<>>
  ELSE IF MatchesCreated(Head(out))
       THEN <<ParseInt(Head(out))>> \o PyFiles(Tail(out))
       ELSE PyFiles(Tail(out))

Result(total, fs) == [totalRows |-> total, files |-> fs]

NoResult == [success |-> FALSE, totalRows |-> 0, files |-> <<>>, errors |-> <<>>]

\* sheet_to_json(worksheet, {header: 1, defval: ''}): one entry per row, TRUE
\* when some cell of the row is not null, undefined or ''
SheetRows == UNION {[1..k -> BOOLEAN] : k \in 0..MaxRows}

\* nonEmptyRows.length
NonEmptyCount(data) == Cardinality({k \in 1..Len(data) : data[k]})

\* convertWithXLSX: value returned when it does not throw
XLSXResult(data) == Result(NonEmptyCount(data), <<NonEmptyCount(data)>>)

\* convertWithExcelJS: eachRow visits the rows that have values and the
\* callback returns at once for rowNumber 1; one file record in every case
ExcelJSRowCount(data) == Cardinality({k \in 2..Len(data) : data[k]})

ExcelJSResult(data) == Result(ExcelJSRowCount(data), <<ExcelJSRowCount(data)>>)

\* the worksheet convertSingleWorksheet was last called for: the adapters
\* invoked for it in order (A = XLSX, B = ExcelJS, C = engine), what the call
\* gave back and, when A or B returned, the rows it had read; when the engine
\* process closed, its exit code and what it had printed
NoSheet ==
  [rows |-> <<>>, tiers |-> <<>>, state |-> "none", totalRows |-> 0, files |-> <<>>,
   code |-> NaN, stdout |-> <<>>]

CvInit ==
  /\ cvPc = "idle"
  /\ cvTotal = 0
  /\ cvIndex = 0
  /\ allFilesCreated = <<>>
  /\ totalRowsAll = 0
  /\ errors = <<>>
  /\ converted = 0
  /\ cvResult = NoResult
  /\ attempts = <<>>
  /\ excelJSLoaded = FALSE
  /\ lastSheet = NoSheet
  /\ rejected = NoRequest

\* loop body after convertSingleWorksheet returned r
SheetDone(r, ls) ==
  /\ allFilesCreated' = allFilesCreated \o r.files
  /\ totalRowsAll' = Plus(totalRowsAll, r.totalRows)
  /\ converted' = converted + 1
  /\ cvIndex' = cvIndex + 1
  /\ cvPc' = "loop"
  /\ lastSheet' = [ls EXCEPT !.state = "ok", !.totalRows = r.totalRows,
                             !.files = r.files]
  /\ UNCHANGED errors

\* loop body, catch: errors.push(`${sheetName}: ${error.message}`)
SheetFailed(ls) ==
  /\ errors' = Append(errors, cvIndex + 1)
  /\ cvIndex' = cvIndex + 1
  /\ cvPc' = "loop"
  /\ lastSheet' = [ls EXCEPT !.state = "failed"]
  /\ UNCHANGED <<allFilesCreated, totalRowsAll, converted>>

\* convertSingleWorksheet ends in convertWithPython: findPythonExecutable,
\* script lookup, spawn
StartPython(ls) ==
  \E engineFound \in BOOLEAN :
    IF engineFound
    THEN /\ cvPc' = "python"
         /\ lastSheet' = [ls EXCEPT !.tiers = Append(ls.tiers, "C"),
                                    !.state = "pending"]
         /\ UNCHANGED <<cvIndex, allFilesCreated, totalRowsAll, errors, converted>>
    ELSE SheetFailed([ls EXCEPT !.tiers = Append(ls.tiers, "C")])

\* convert-file: validation of the request (ExcelJS was or was not loaded
\* when converter.js was required)
ConvertFile ==
  /\ cvPc = "idle"
  /\ \E req \in ConvertRequests :
       LET v == validateRequest(req) IN
       /\ rejected' = IF v # "ok" THEN Refused("convert-file", v) ELSE NoRequest
       /\ IF Reached(v)
          THEN /\ cvTotal' = req.worksheets.n
               /\ cvPc' = "loop"
               /\ UNCHANGED cvResult
          ELSE /\ cvResult' = NoResult
               /\ cvPc' = "done"
               /\ UNCHANGED cvTotal
  /\ excelJSLoaded' \in BOOLEAN
  /\ UNCHANGED <<cvIndex, allFilesCreated, totalRowsAll, errors, converted,
                 attempts, lastSheet>>
  /\ UNCHANGED notCv

\* one loop iteration: convertSingleWorksheet up to its return, its throw
\* or the start of the engine subprocess
ConvertSheet ==
  /\ cvPc = "loop"
  /\ cvIndex < cvTotal
  /\ attempts' = Append(attempts, cvIndex + 1)
  /\ \E readOK \in BOOLEAN, sheetExists \in BOOLEAN, sheetAccessible \in BOOLEAN :
       LET a == [NoSheet EXCEPT !.tiers = <<"A">>]
           ab == [NoSheet EXCEPT !.tiers = <<"A", "B">>]
       IN
       IF ~readOK THEN SheetFailed(a)
       ELSE IF sheetExists /\ ~sheetAccessible THEN StartPython(a)
       ELSE IF ~sheetExists THEN SheetFailed(a)
       ELSE \E data \in SheetRows, xlsxFault \in BOOLEAN :
              IF ~xlsxFault /\ NonEmptyCount(data) > 0
              THEN \* convertWithXLSX returns
                   SheetDone(XLSXResult(data), [a EXCEPT !.rows = data])
              ELSE \* convertWithXLSX throws; ExcelJS when loaded
                   IF excelJSLoaded
                   THEN \E ok \in BOOLEAN :
                          IF ok
                          THEN SheetDone(ExcelJSResult(data), [ab EXCEPT !.rows = data])
                          ELSE StartPython(ab)
                   ELSE StartPython(a)
  /\ UNCHANGED <<cvTotal, cvResult, excelJSLoaded, rejected>>
  /\ UNCHANGED notCv

\* convertWithPython: pythonProcess.on('close')
PythonClose ==
  /\ cvPc = "python"
  /\ \E code \in {0, 1}, stdout \in PyStdout :
       LET ls == [lastSheet EXCEPT !.code = code, !.stdout = stdout] IN
       IF code # 0 THEN SheetFailed(ls)
       ELSE SheetDone(Result(PyTotalRows(stdout), PyFiles(stdout)), ls)
  /\ UNCHANGED <<cvTotal, cvResult, attempts, excelJSLoaded, rejected>>
  /\ UNCHANGED notCv

\* convertWithPython: pythonProcess.on('error')
PythonError ==
  /\ cvPc = "python"
  /\ SheetFailed(lastSheet)
  /\ UNCHANGED <<cvTotal, cvResult, attempts, excelJSLoaded, rejected>>
  /\ UNCHANGED notCv

\* if (errors.length > 0 && allFilesCreated.length === 0) throw ...
AllFailed(errs, fs) == Len(errs) > 0 /\ Len(fs) = 0

\* convert-file: after the loop
ConvertFinish ==
  /\ cvPc = "loop"
  /\ cvIndex = cvTotal
  /\ cvResult' = IF AllFailed(errors, allFilesCreated)
                 THEN NoResult
                 ELSE [success |-> TRUE, totalRows |-> totalRowsAll,
                       files |-> allFilesCreated, errors |-> errors]
  /\ cvPc' = "done"
  /\ UNCHANGED <<cvTotal, cvIndex, allFilesCreated, totalRowsAll, errors, converted,
                 attempts, excelJSLoaded, lastSheet, rejected>>
  /\ UNCHANGED notCv

NextConvert ==
  \/ ConvertFile
  \/ ConvertSheet
  \/ PythonClose
  \/ PythonError
  \/ ConvertFinish

\* ------------------------------------------- CSV cells: writer and parser
\* the characters a cell is made of: comma, double quote, newline, and an
\* ordinary character
Alphabet == {",", "\"", "\n", "a"}

Strings == UNION {[1..n -> Alphabet] : n \in 0..MaxCellLen}

\* a cell value: its JavaScript type, its characters (strings), its value
\* (numbers; booleans as 0 / 1); "absent" is a hole of the row array
Str(s) == [t |-> "string", s |-> s, n |-> 0]

Cells ==
  {Str(s) : s \in Strings}
    \cup {[t |-> x, s |-> <<>>, n |-> k] : x \in {"number", "boolean"}, k \in {0, 1}}
    \cup {[t |-> x, s |-> <<>>, n |-> 0] : x \in {"null", "undefined", "absent"}}

\* rows of one cell or of two cells
CsvRows == {<<c>> : c \in Cells} \cup {<<c, d>> : c \in Cells, d \in Cells}

\* cell || '' takes the right-hand side
Falsy(c) ==
  \/ c.t \in {"null", "undefined", "absent"}
  \/ (c.t = "string" /\ c.s = <<>>)
  \/ (c.t \in {"number", "boolean"} /\ c.n = 0)

\* String(cell): the value's own text
ToText(c) ==
  CASE c.t = "string" -> c.s
    [] c.t = "number" -> IF c.n = 0 THEN <<"0">> ELSE <<"1">>
    [] c.t = "boolean" -> IF c.n = 0 THEN <<"f", "a", "l", "s", "e">>
                          ELSE <<"t", "r", "u", "e">>
    [] c.t = "null" -> <<"n", "u", "l", "l">>
    [] OTHER -> <<"u", "n", "d", "e", "f", "i", "n", "e", "d">>

\* includes(',') || includes('"') || includes('\n')
NeedsQuoting(s) == \E i \in 1..Len(s) : s[i] \in {",", "\"", "\n"}

\* variant: internal quotes are left single
DoubleQuotes_single(s) == s

\* replace(/"/g, '""')
RECURSIVE DoubleQuotes(_)
DoubleQuotes(s) ==
  IF s = <<>> THEN <<>>
  ELSE (IF Head(s) = "\"" THEN <<"\"", "\"">> ELSE <<Head(s)>>)
         \o DoubleQuotes(Tail(s))

\* `"${...}"`
Wrap(s) == <<"\"">> \o DoubleQuotes(s) \o <<"\"">>

\* main.js escapeCSVCell(cell)
escapeCSVCell(c) ==
  LET cellStr == IF Falsy(c) THEN <<>> ELSE ToText(c) IN
  IF NeedsQuoting(cellStr) THEN Wrap(cellStr) ELSE cellStr

\* worker thread writers: the row.map callback, as join() renders its value
csvCell(c) ==
  IF c.t = "string" /\ NeedsQuoting(c.s) THEN Wrap(c.s)
  ELSE IF Falsy(c) THEN <<>> ELSE ToText(c)

\* converter.js convertWithXLSX: includes(',') || includes('"') ||
\* includes('\\n'), the last being a backslash followed by the letter n
IncludesBackslashN(s) ==
  \E i \in 1..(Len(s) - 1) : s[i] = "\\" /\ s[i + 1] = "n"

\* converter.js convertWithXLSX: the row.map callback, as join() renders it
xlsxCell(c) ==
  IF c.t = "string"
       /\ ((\E i \in 1..Len(c.s) : c.s[i] \in {",", "\""}) \/ IncludesBackslashN(c.s))
  THEN Wrap(c.s)
  ELSE IF Falsy(c) THEN <<>> ELSE ToText(c)

\* join(',')
RECURSIVE Join(_)
Join(texts) ==
  IF texts = <<>> THEN <<>>
  ELSE IF Len(texts) = 1 THEN Head(texts)
       ELSE Head(texts) \o <<",">> \o Join(Tail(texts))

\* parseCsvLine(line): the while loop from position i (1-based here)
RECURSIVE ParseFrom(_, _, _, _, _)
ParseFrom(line, i, current, inQuotes, result) ==
  IF i > Len(line) THEN Append(result, current)
  ELSE IF line[i] = "\""
       THEN IF inQuotes /\ i + 1 <= Len(line) /\ line[i + 1] = "\""
            THEN ParseFrom(line, i + 2, Append(current, "\""), inQuotes, result)
            ELSE ParseFrom(line, i + 1, current, ~inQuotes, result)
       ELSE IF line[i] = "," /\ ~inQuotes
            THEN ParseFrom(line, i + 1, <<>>, inQuotes, Append(result, current))
            ELSE ParseFrom(line, i + 1, Append(current, line[i]), inQuotes, result)

parseCsvLine(line) == ParseFrom(line, 1, <<>>, FALSE, <<>>)

CsvInit ==
  /\ csvPc = "idle"
  /\ csvWriter = "none"
  /\ csvRow = <<>>
  /\ csvCells = <<>>
  /\ csvLine = <<>>
  /\ csvParsed = <<>>

\* a row is serialized, by escapeCSVCell (main.js), by the row.map callback
\* of writeCSVSingle / writeCSVWithSplitting or by that of converter.js's
\* convertWithXLSX, and joined with commas
WriteRow ==
  /\ csvPc = "idle"
  /\ \E row \in CsvRows, w \in {"escapeCSVCell", "writeCSV", "convertWithXLSX"} :
       LET texts == [k \in 1..Len(row) |->
                       CASE w = "escapeCSVCell" -> escapeCSVCell(row[k])
                         [] w = "writeCSV" -> csvCell(row[k])
                         [] OTHER -> xlsxCell(row[k])]
       IN  /\ csvRow' = row
           /\ csvWriter' = w
           /\ csvCells' = texts
           /\ csvLine' = Join(texts)
  /\ csvPc' = "written"
  /\ UNCHANGED csvParsed
  /\ UNCHANGED notCsv

\* the line is read back with parseCsvLine
ParseLine ==
  /\ csvPc = "written"
  /\ csvParsed' = parseCsvLine(csvLine)
  /\ csvPc' = "parsed"
  /\ UNCHANGED <<csvWriter, csvRow, csvCells, csvLine>>
  /\ UNCHANGED notCsv

NextCsv ==
  \/ WriteRow
  \/ ParseLine

\* ------------------------------------------------- StreamingFileReader
Min(a, b) == IF a < b THEN a ELSE b

Max(a, b) == IF a > b THEN a ELSE b

NoPage ==
  [rows |-> <<>>, startRow |-> 0, endRow |-> 0, totalRows |-> 0, hasMore |-> FALSE]

NoArgs == [startRow |-> 0, pageSize |-> 0]

\* consecutive pages readPage(0, p), readPage(p, p), ... gathered so far
NoTile == [p |-> 0, next |-> 0, rows |-> <<>>, more |-> FALSE]

SheetNames == 1..MaxSheetNames

\* what an operation on a workbook meets: whether the file is above 200 MiB,
\* how XLSX.readFile and the lookup of the sheet go, how the first and the
\* second run of the engine go, and the rows of the sheet's range (left at 1
\* where no run or parse can succeed, and XLSX left alone above 200 MiB)
Envs ==
  {e \in [big : BOOLEAN, xlsx : {"ok", "readFails", "noSheet"},
          py1 : {"ok", "fail"}, py2 : {"ok", "fail"}, n : 1..MaxFileLines] :
     /\ (e.big => e.xlsx = "ok")
     /\ (~e.big => e.py2 = "ok")
     /\ (~e.big /\ e.xlsx = "ok" => e.py1 = "ok")
     /\ ((e.big \/ e.xlsx # "ok") /\ e.py1 = "fail" /\ e.py2 = "fail" => e.n = 1)}

\* what initializeFile meets in a workbook: as above, py1 and py2 being the
\* engine's listing of the sheets and its selection of the first one above
\* 200 MiB, and first the workbook's first sheet, 0 when it has none
InitEnvs ==
  {e \in [big : BOOLEAN, first : 0..1, xlsx : {"ok", "readFails", "noSheet"},
          py1 : {"ok", "fail"}, py2 : {"ok", "fail"}, n : 1..MaxFileLines] :
     /\ (e.big => e.xlsx = "ok")
     /\ (~e.big => e.py2 = "ok")
     /\ (~e.big /\ e.xlsx # "noSheet" => e.py1 = "ok")
     /\ (e.big /\ e.py1 = "fail" => e.py2 = "ok")
     /\ (e.first = 0 => e.xlsx = "ok" /\ e.py1 = "ok" /\ e.py2 = "ok")
     /\ (e.first = 0 \/ e.xlsx = "readFails" \/ e.py1 = "fail" \/ e.py2 = "fail"
           => e.n = 1)}

\* what getFileInfo returns for no session
NoInfo ==
  [filePath |-> 0, fileType |-> "none", currentSheet |-> 0, totalRows |-> 0,
   columns |-> 0]

\* the fields of a reader: currentFile, currentSheet, fileType, totalRows,
\* columns (the sheet or file whose header they were read from, 0 for []),
\* and the lines / range rows behind totalRows
Closed ==
  [cf |-> 0, cs |-> 0, ft |-> "none", tr |-> 0, cols |-> 0, fl |-> 0]

Cur ==
  [cf |-> currentFile, cs |-> currentSheet, ft |-> fileType, tr |-> totalRows,
   cols |-> columns, fl |-> fileLines]

\* outcome of the last operation on the viewer
Last(op, ok, error, calls) ==
  [op |-> op, ok |-> ok, error |-> error, calls |-> calls, big |-> FALSE,
   arg |-> 0, ext |-> "", status |-> "", prev |-> 0, info |-> NoInfo]

RdInit ==
  /\ rdPc = "uninitialized"
  /\ currentFile = 0
  /\ currentSheet = 0
  /\ fileType = "none"
  /\ fileLines = 0
  /\ totalRows = 0
  /\ columns = 0
  /\ liveReaders = 0
  /\ session = 0
  /\ rdLast = Last("none", TRUE, "", <<>>)
  /\ rdArgs = NoArgs
  /\ page = NoPage
  /\ tile = NoTile

\* analyzeCsvFile: Math.max(0, rowCount - 1); setExcelSheet:
\* Math.max(0, range.e.r - range.s.r), the range having at least one row
TotalRowsOf(n) == Max(0, n - 1)

\* what an operation on a reader gives: the reader's fields afterwards,
\* whether it returned, the error it threw, the parsers and engines it ran
Res(s, ok, error, calls) == [s |-> s, ok |-> ok, error |-> error, calls |-> calls]

\* the three assignments that select sheet name, its range having n rows
Commit(s, name, n) ==
  [s EXCEPT !.cs = name, !.tr = TotalRowsOf(n), !.cols = name, !.fl = n]

\* setExcelSheetPython(sheetName): this.currentFile.replace throws on a
\* closed reader before the engine is spawned; else the engine runs and the
\* close handler assigns the three fields together or rejects
setExcelSheetPython(s, name, py, n, calls) ==
  IF s.cf = 0 THEN Res(s, FALSE, "TypeError", calls)
  ELSE IF py = "ok" THEN Res(Commit(s, name, n), TRUE, "", Append(calls, "python"))
  ELSE Res(s, FALSE, "Python process failed", Append(calls, "python"))

\* the catch block of setExcelSheet
SheetFallback(s, name, py, n, calls) ==
  LET r == setExcelSheetPython(s, name, py, n, calls) IN
  IF r.ok THEN r ELSE Res(r.s, FALSE, "Failed to set Excel sheet", r.calls)

\* variant: currentSheet is assigned before the worksheet is looked up
setExcelSheet_early(s, name, big, xlsx, py1, py2, n) ==
  IF s.cf = 0 THEN SheetFallback(s, name, py1, n, <<>>)
  ELSE IF big
  THEN LET r == setExcelSheetPython(s, name, py1, n, <<>>) IN
       IF r.ok THEN r ELSE SheetFallback(s, name, py2, n, r.calls)
  ELSE IF xlsx = "ok" THEN Res(Commit(s, name, n), TRUE, "", <<"xlsx">>)
  ELSE IF xlsx = "noSheet"
  THEN SheetFallback([s EXCEPT !.cs = name], name, py1, n, <<"xlsx">>)
  ELSE SheetFallback(s, name, py1, n, <<"xlsx">>)

\* setExcelSheet(sheetName): fs.statSync(null) throws on a closed reader;
\* above 200 MiB the engine is awaited inside the try block, so its
\* rejection reaches the catch block too; else XLSX.readFile, the lookup of
\* the worksheet, and then the assignments
setExcelSheet(s, name, big, xlsx, py1, py2, n) ==
  IF s.cf = 0 THEN SheetFallback(s, name, py1, n, <<>>)
  ELSE IF big
  THEN LET r == setExcelSheetPython(s, name, py1, n, <<>>) IN
       IF r.ok THEN r ELSE SheetFallback(s, name, py2, n, r.calls)
  ELSE IF xlsx = "ok" THEN Res(Commit(s, name, n), TRUE, "", <<"xlsx">>)
  ELSE SheetFallback(s, name, py1, n, <<"xlsx">>)

\* analyzeExcelFile: XLSX.readFile, workbook.SheetNames[0] (first = 0 when
\* there is none), setExcelSheet
analyzeExcelFile(s, first, xlsx, py1, py2, n) ==
  IF xlsx = "readFails" \/ first = 0
  THEN Res(s, FALSE, "Failed to analyze Excel file", <<"xlsx">>)
  ELSE LET r == setExcelSheet(s, first, FALSE, xlsx, py1, py2, n) IN
       IF r.ok THEN [r EXCEPT !.calls = <<"xlsx">> \o r.calls]
       ELSE Res(r.s, FALSE, "Failed to analyze Excel file", <<"xlsx">> \o r.calls)

\* analyzeExcelFilePython: getExcelSheetsPython, then setExcelSheetPython on
\* the first worksheet
analyzeExcelFilePython(s, first, py1, py2, n) ==
  IF py1 # "ok" \/ first = 0
  THEN Res(s, FALSE, "Failed to analyze Excel file with Python", <<"python">>)
  ELSE LET r == setExcelSheetPython(s, first, py2, n, <<"python">>) IN
       IF r.ok THEN r
       ELSE Res(r.s, FALSE, "Failed to analyze Excel file with Python", r.calls)

\* analyzeCsvFile on a file of n lines: columns from the header line when
\* there is one
analyzeCsvFile(s, n) ==
  Res([s EXCEPT !.tr = TotalRowsOf(n), !.cols = IF n >= 1 THEN s.cf ELSE 0,
                !.fl = n], TRUE, "", <<"readline">>)

\* initializeFile(filePath) on reader s
initializeFile(s, p, big, first, xlsx, py1, py2, n) ==
  LET v == validateFilePath(p)
      s1 == [s EXCEPT !.cf = p.file]
  IN  IF v # "ok" THEN Res(s, FALSE, v, <<>>)
      ELSE IF p.ext = ".csv" THEN analyzeCsvFile([s1 EXCEPT !.ft = "csv"], n)
      ELSE IF p.ext \in {".xlsx", ".xls", ".xlsm"}
      THEN IF big
           THEN analyzeExcelFilePython([s1 EXCEPT !.ft = "excel"], first, py1, py2, n)
           ELSE analyzeExcelFile([s1 EXCEPT !.ft = "excel"], first, xlsx, py1, py2, n)
      ELSE Res(s1, FALSE, "Unsupported file type", <<>>)

\* close(): the fields after it
close(s) == Closed

\* readers with a file open, once reader s has been closed
LiveAfterClose(live, s) == IF s.cf # 0 THEN live - 1 ELSE live

\* variant: the reader being replaced is left open
ReleaseOld_skip(pcv, s, live) == live

\* viewer-init-file: if (streamingReader) streamingReader.close()
ReleaseOld(pcv, s, live) ==
  IF pcv = "initialized" THEN LiveAfterClose(live, s) ELSE live

SetReader(s) ==
  /\ currentFile' = s.cf
  /\ currentSheet' = s.cs
  /\ fileType' = s.ft
  /\ totalRows' = s.tr
  /\ columns' = s.cols
  /\ fileLines' = s.fl

NoRead ==
  /\ rdArgs' = NoArgs
  /\ page' = NoPage
  /\ tile' = NoTile

rdFields == <<currentFile, currentSheet, fileType, totalRows, columns, fileLines>>

\* viewer-init-file with a path validateFilePath rejects: the handler
\* returns success: false before it touches the reader
viewerInitFileInvalid ==
  /\ \E p \in InvalidPaths :
       /\ rdLast' = [Last("viewerInitFile", FALSE, validateFilePath(p), <<>>)
                       EXCEPT !.arg = p.file, !.ext = p.ext, !.status = p.status]
  /\ NoRead
  /\ UNCHANGED <<rdPc, rdFields, liveReaders, session>>
  /\ UNCHANGED notRd

\* viewer-init-file with a path validateFilePath accepts: the reader in
\* place is closed, a new one is created and initializeFile runs on it
InitFileHandler ==
  /\ \E p \in ValidPaths, e \in InitEnvs :
       /\ LET live == ReleaseOld(rdPc, Cur, liveReaders)
              r == initializeFile(Closed, p, e.big, e.first, e.xlsx, e.py1, e.py2, e.n)
          IN  /\ SetReader(r.s)
              /\ liveReaders' = live + (IF r.s.cf # 0 THEN 1 ELSE 0)
              /\ session' = IF r.ok THEN p.file ELSE 0
              /\ rdLast' = [Last("viewerInitFile", r.ok, r.error, r.calls)
                              EXCEPT !.arg = p.file, !.ext = p.ext,
                                     !.status = p.status, !.big = e.big,
                                     !.prev = currentFile]
  /\ rdPc' = "initialized"
  /\ NoRead

viewerInitFile ==
  /\ InitFileHandler
  /\ UNCHANGED notRd

\* the branch of initializeFile for ext === '.csv' with analyzeCsvFile, on a
\* CSV file of n lines. validateFilePath accepts no .csv path, so no call of
\* initializeFile gets here; the branch is run on its own so that the CSV
\* reader below is exercised
initializeCsv ==
  /\ \E f \in {g \in Files : ExtOf(g) = ".csv"}, n \in 0..MaxFileLines :
       LET live == ReleaseOld(rdPc, Cur, liveReaders)
           r == analyzeCsvFile([Closed EXCEPT !.cf = f, !.ft = "csv"], n)
       IN  /\ SetReader(r.s)
           /\ liveReaders' = live + 1
           /\ session' = f
           /\ rdLast' = [Last("initializeCsv", TRUE, "", r.calls) EXCEPT !.arg = f]
  /\ rdPc' = "initialized"
  /\ NoRead
  /\ UNCHANGED notRd

\* viewer-set-sheet / setExcelSheet(sheetName) on the reader in place; the
\* viewer offers sheets for workbooks only
viewerSetSheet ==
  /\ fileType # "csv"
  /\ \E name \in SheetNames, e \in Envs :
       IF rdPc = "uninitialized"
       THEN /\ rdLast' = [Last("setExcelSheet", FALSE, "No file initialized", <<>>)
                            EXCEPT !.arg = name]
            /\ UNCHANGED rdFields
       ELSE LET r == setExcelSheet(Cur, name, e.big, e.xlsx, e.py1, e.py2, e.n) IN
            /\ SetReader(r.s)
            /\ rdLast' = [Last("setExcelSheet", r.ok, r.error, r.calls)
                            EXCEPT !.arg = name, !.big = (e.big /\ currentFile # 0)]
  /\ NoRead
  /\ UNCHANGED <<rdPc, liveReaders, session>>
  /\ UNCHANGED notRd

\* variant: the row at startRow itself is not taken
InRange_exclusive(dataRow, startRow, foundRows, pageSize) ==
  dataRow > startRow /\ foundRows < pageSize

\* readCsvPage: dataRow >= startRow && foundRows < pageSize
InRange(dataRow, startRow, foundRows, pageSize) ==
  dataRow >= startRow /\ foundRows < pageSize

\* variant: the data row index is taken one too high
RECURSIVE CsvScan_offByOne(_, _, _, _, _)
CsvScan_offByOne(currentRow, n, startRow, pageSize, rs) ==
  IF currentRow + 1 > n - 1 THEN rs
  ELSE LET cur == currentRow + 1
           dataRow == cur
       IN  IF cur = 0 THEN CsvScan_offByOne(cur, n, startRow, pageSize, rs)
           ELSE IF InRange(dataRow, startRow, Len(rs), pageSize)
                THEN CsvScan_offByOne(cur, n, startRow, pageSize, Append(rs, cur))
                ELSE CsvScan_offByOne(cur, n, startRow, pageSize, rs)

\* readCsvPage: the 'line' handler run on lines currentRow + 1 .. n of the
\* file; rl.close() only stops lines that could add nothing
RECURSIVE CsvScan(_, _, _, _, _)
CsvScan(currentRow, n, startRow, pageSize, rs) ==
  IF currentRow + 1 > n - 1 THEN rs
  ELSE LET cur == currentRow + 1
           dataRow == cur - 1
       IN  IF cur = 0 THEN CsvScan(cur, n, startRow, pageSize, rs)
           ELSE IF InRange(dataRow, startRow, Len(rs), pageSize)
                THEN CsvScan(cur, n, startRow, pageSize, Append(rs, dataRow + 1))
                ELSE CsvScan(cur, n, startRow, pageSize, rs)

\* readCsvPage(startRow, pageSize): the value it resolves with
readCsvPage(startRow, pageSize) ==
  LET rs == CsvScan(0 - 1, fileLines, startRow, pageSize, <<>>) IN
  [rows |-> rs, startRow |-> startRow, endRow |-> startRow + Len(rs) - 1,
   totalRows |-> totalRows, hasMore |-> (startRow + Len(rs)) < totalRows]

\* readExcelPage(startRow, pageSize): the value it returns
readExcelPage(startRow, pageSize) ==
  LET endRow == Min(startRow + pageSize, totalRows) IN
  [rows |-> [k \in 1..Max(0, endRow - startRow) |-> startRow + k],
   startRow |-> startRow, endRow |-> endRow - 1,
   totalRows |-> totalRows, hasMore |-> endRow < totalRows]

\* the pages gathered once page pg has been read at (startRow, pageSize)
TileAfter(t, startRow, pageSize, pg) ==
  IF startRow = 0
  THEN [p |-> pageSize, next |-> pageSize, rows |-> pg.rows, more |-> pg.hasMore]
  ELSE IF t.p = pageSize /\ t.next = startRow /\ t.more
  THEN [p |-> pageSize, next |-> startRow + pageSize, rows |-> t.rows \o pg.rows,
        more |-> pg.hasMore]
  ELSE NoTile

\* the error readPage throws, "" when it returns a page; readOK: XLSX.readFile
\* and the lookup of this.currentSheet succeed
ReadError(readOK) ==
  IF rdPc = "uninitialized" \/ currentFile = 0 THEN "No file initialized"
  ELSE IF fileType = "csv" THEN ""
  ELSE IF fileType = "excel"
  THEN IF readOK /\ currentSheet # 0 THEN "" ELSE "Failed to read Excel page"
  ELSE "Unsupported file type"

\* viewer-read-page / readPage(startRow, pageSize)
ReadPageHandler ==
  /\ \E startRow \in 0..MaxStartRow, pageSize \in 1..MaxPageSize,
        readOK \in BOOLEAN :
       LET err == ReadError(readOK)
           pg == IF fileType = "csv" THEN readCsvPage(startRow, pageSize)
                 ELSE readExcelPage(startRow, pageSize)
           parser == IF currentFile = 0 \/ rdPc = "uninitialized" THEN <<>>
                     ELSE IF fileType = "csv" THEN <<"readline">>
                     ELSE IF fileType = "excel" THEN <<"xlsx">> ELSE <<>>
       IN  /\ (fileType # "excel" => readOK)
           /\ rdLast' = Last("readPage", err = "", err, parser)
           /\ IF err = ""
              THEN /\ rdArgs' = [startRow |-> startRow, pageSize |-> pageSize]
                   /\ page' = pg
                   /\ tile' = TileAfter(tile, startRow, pageSize, pg)
              ELSE NoRead
  /\ UNCHANGED <<rdPc, rdFields, liveReaders, session>>

readPage ==
  /\ ReadPageHandler
  /\ UNCHANGED notRd

\* getFileInfo(): null without a current file
getFileInfo(s) ==
  IF s.cf = 0 THEN NoInfo
  ELSE [filePath |-> s.cf, fileType |-> s.ft, currentSheet |-> s.cs,
        totalRows |-> s.tr, columns |-> s.cols]

\* viewer-get-file-info
GetFileInfoHandler ==
  /\ rdLast' = IF rdPc = "uninitialized"
               THEN Last("getFileInfo", FALSE, "No file initialized", <<>>)
               ELSE [Last("getFileInfo", TRUE, "", <<>>)
                       EXCEPT !.info = getFileInfo(Cur)]
  /\ NoRead
  /\ UNCHANGED <<rdPc, rdFields, liveReaders, session>>

viewerGetFileInfo ==
  /\ GetFileInfoHandler
  /\ UNCHANGED notRd

\* close() called on the reader in place
closeReader ==
  /\ rdPc = "initialized"
  /\ SetReader(close(Cur))
  /\ liveReaders' = LiveAfterClose(liveReaders, Cur)
  /\ session' = 0
  /\ rdLast' = Last("close", TRUE, "", <<>>)
  /\ NoRead
  /\ UNCHANGED rdPc
  /\ UNCHANGED notRd

\* cleanupIpcHandlers: streamingReader.close(); streamingReader = null
cleanupIpcHandlers ==
  /\ rdPc = "initialized"
  /\ SetReader(close(Cur))
  /\ liveReaders' = LiveAfterClose(liveReaders, Cur)
  /\ session' = 0
  /\ rdPc' = "uninitialized"
  /\ rdLast' = Last("cleanup", TRUE, "", <<>>)
  /\ NoRead
  /\ UNCHANGED notRd

NextReader ==
  \/ viewerInitFileInvalid
  \/ viewerInitFile
  \/ initializeCsv
  \/ viewerSetSheet
  \/ readPage
  \/ viewerGetFileInfo
  \/ closeReader
  \/ cleanupIpcHandlers

\* --------------------------------------------- request admission
\* get-worksheets: validateFilePath, then excelWorkerManager.processExcelFile
getWorksheets ==
  /\ \E p \in Paths :
       LET v == validateFilePath(p) IN
       /\ rejected' = IF v # "ok" THEN Refused("get-worksheets", v) ELSE NoRequest
       /\ IF Reached(v) THEN StartJob ELSE UNCHANGED mgrVars
  /\ UNCHANGED <<cvPc, cvTotal, cvIndex, allFilesCreated, totalRowsAll, errors,
                 converted, cvResult, attempts, excelJSLoaded, lastSheet>>
  /\ UNCHANGED <<wkVars, csvVars, rdVars, anVars, snVars, extVars>>

\* the two handlers, and the jobs get-worksheets started running to their
\* 'success' message
NextRequest ==
  \/ getWorksheets
  \/ ConvertFile
  \/ \E i \in JobIds : WorkerSendSuccess(i)
  \/ \E i \in JobIds : OnMessage(i)

\* ------------------------------------------------- analyzeWorksheets
NoInfoYet == [method |-> "none", estimatedRows |-> 0, complexity |-> "none"]

AnInit == worksheetInfo = NoInfoYet

\* variant: the thresholds belong to the class above them
complexity_inclusive(estimatedRows) ==
  IF estimatedRows >= 10000 THEN "large"
  ELSE IF estimatedRows >= 1000 THEN "medium"
  ELSE "small"

\* estimatedRows > 10000 ? 'large' : estimatedRows > 1000 ? 'medium' : 'small'
complexity(estimatedRows) ==
  IF estimatedRows > 10000 THEN "large"
  ELSE IF estimatedRows > 1000 THEN "medium"
  ELSE "small"

\* the descriptor of one worksheet for result.method === 'XLSX':
\* estimatedRows is range.e.r - range.s.r + 1
AnalyzeXLSX ==
  /\ worksheetInfo = NoInfoYet
  /\ \E n \in 1..MaxEstimatedRows :
       worksheetInfo' = [method |-> "XLSX", estimatedRows |-> n,
                         complexity |-> complexity(n)]
  /\ UNCHANGED notAn

\* the descriptor of one worksheet for result.method === 'ExcelJS':
\* estimatedRows is worksheet.rowCount || 0
AnalyzeExcelJS ==
  /\ worksheetInfo = NoInfoYet
  /\ \E n \in 0..MaxEstimatedRows :
       worksheetInfo' = [method |-> "ExcelJS", estimatedRows |-> n,
                         complexity |-> complexity(n)]
  /\ UNCHANGED notAn

NextAnalyze ==
  \/ AnalyzeXLSX
  \/ AnalyzeExcelJS

\* ------------------------------------------------- sanitizeSheetName
\* the characters /[<>:"/\\|?*]/g removes
Forbidden == {"<", ">", ":", "\"", "/", "\\", "|", "?", "*"}

\* characters trim() removes
Whitespace == {" ", "\t"}

NameChars == Forbidden \cup Whitespace \cup {"a"}

\* the values sanitizeSheetName is called with: strings, and a value that is
\* not a string
NameStrings == UNION {[1..n -> NameChars] : n \in 0..MaxNameLen}

NameValues ==
  {[t |-> "string", s |-> x] : x \in NameStrings}
    \cup {[t |-> "other", s |-> <<>>]}

\* sheetName.replace(/[<>:"/\\|?*]/g, '')
RECURSIVE RemoveForbidden(_)
RemoveForbidden(x) ==
  IF x = <<>> THEN <<>>
  ELSE IF Head(x) \in Forbidden THEN RemoveForbidden(Tail(x))
       ELSE <<Head(x)>> \o RemoveForbidden(Tail(x))

RECURSIVE TrimStart(_)
TrimStart(x) ==
  IF x # <<>> /\ Head(x) \in Whitespace THEN TrimStart(Tail(x)) ELSE x

RECURSIVE TrimEnd(_)
TrimEnd(x) ==
  IF x # <<>> /\ x[Len(x)] \in Whitespace
  THEN TrimEnd(SubSeq(x, 1, Len(x) - 1)) ELSE x

\* String.prototype.trim
Trim(x) == TrimEnd(TrimStart(x))

Thrown(error) == [threw |-> TRUE, error |-> error, s |-> <<>>]

Returned(x) == [threw |-> FALSE, error |-> "", s |-> x]

NotCalled == [threw |-> FALSE, error |-> "not called", s |-> <<>>]

\* variant: the name is trimmed before the characters are removed
sanitizeSheetName_trimFirst(v) ==
  IF v.t # "string" \/ v.s = <<>> THEN Thrown("Invalid sheet name")
  ELSE LET sanitized == RemoveForbidden(Trim(v.s)) IN
       IF sanitized = <<>>
       THEN Thrown("Sheet name cannot be empty after sanitization")
       ELSE Returned(sanitized)

\* sanitizeSheetName(sheetName)
sanitizeSheetName(v) ==
  IF v.t # "string" \/ v.s = <<>> THEN Thrown("Invalid sheet name")
  ELSE LET sanitized == Trim(RemoveForbidden(v.s)) IN
       IF sanitized = <<>>
       THEN Thrown("Sheet name cannot be empty after sanitization")
       ELSE Returned(sanitized)

SnInit ==
  /\ snInput = [t |-> "other", s |-> <<>>]
  /\ snResult = NotCalled
  /\ snAgain = NotCalled

\* sanitizeSheetName called with some value
Sanitize ==
  /\ snResult = NotCalled
  /\ \E v \in NameValues :
       /\ snInput' = v
       /\ snResult' = sanitizeSheetName(v)
  /\ snAgain' = NotCalled
  /\ UNCHANGED notSn

\* sanitizeSheetName called with the name it returned
SanitizeAgain ==
  /\ snResult # NotCalled
  /\ ~snResult.threw
  /\ snAgain = NotCalled
  /\ snAgain' = sanitizeSheetName([t |-> "string", s |-> snResult.s])
  /\ UNCHANGED <<snInput, snResult>>
  /\ UNCHANGED notSn

NextSanitize ==
  \/ Sanitize
  \/ SanitizeAgain

\* ------------------------- convert-file on background workers (part_004)
NoBgResult == [success |-> FALSE, totalRows |-> 0, files |-> 0, errors |-> 0]

BgInit ==
  /\ bgPc = "idle"
  /\ bgTotal = 0
  /\ bgMaxRows = 0
  /\ bgSheet = 0
  /\ bgJob = 0
  /\ bgFiles = <<>>
  /\ bgTotalRows = 0
  /\ bgErrors = <<>>
  /\ bgEvents = <<>>
  /\ bgResult = NoBgResult

\* row counts of the files the worker's writer returns for n rows under row
\* limit r: one file without a limit, else chunks of r rows
RECURSIVE SplitCounts(_, _)
SplitCounts(n, r) ==
  IF r = 0 THEN <<n>>
  ELSE IF n <= r THEN <<n>>
  ELSE <<r>> \o SplitCounts(n - r, r)

\* data of the 'success' message of a convertToCSV job: { totalRows, files }
WorkerResults(r) == {Result(n, SplitCounts(n, r)) : n \in 1..MaxRows}

\* 'conversion-progress': completed: allFilesCreated.length
Completed(fs, sheet) == Len(fs)

\* the statements after the loop: throw when every worksheet failed, else
\* return success with the totals
BgReturn(fs, total, errs) ==
  IF Len(errs) > 0 /\ Len(fs) = 0 THEN NoBgResult
  ELSE [success |-> TRUE, totalRows |-> total, files |-> Len(fs),
        errors |-> Len(errs)]

\* the loop goes on to worksheet k + 1 and submits its job, or the handler
\* returns after the last worksheet
BgContinue(fs, total, errs) ==
  IF bgSheet < bgTotal
  THEN /\ StartJob
       /\ bgSheet' = bgSheet + 1
       /\ bgJob' = NextWorkerId(currentWorkerId, workers)
       /\ bgPc' = "await"
       /\ UNCHANGED bgResult
  ELSE /\ bgResult' = BgReturn(fs, total, errs)
       /\ bgJob' = 0
       /\ bgPc' = "done"
       /\ UNCHANGED <<bgSheet, mgrVars>>

\* convert-file: validation, then the first iteration of the worksheet loop
\* up to its await of convertWorksheetToCSV
BgConvertFile ==
  /\ bgPc = "idle"
  /\ \E req \in ConvertRequests, mr \in 0..MaxRowLimit :
       LET v == validateRequest(req) IN
       IF Reached(v)
       THEN /\ bgTotal' = req.worksheets.n
            /\ bgMaxRows' = mr
            /\ bgSheet' = 1
            /\ StartJob
            /\ bgJob' = NextWorkerId(currentWorkerId, workers)
            /\ bgPc' = "await"
            /\ UNCHANGED bgResult
       ELSE /\ bgResult' = NoBgResult
            /\ bgPc' = "done"
            /\ UNCHANGED <<bgTotal, bgMaxRows, bgSheet, bgJob, mgrVars>>
  /\ UNCHANGED <<bgFiles, bgTotalRows, bgErrors, bgEvents>>
  /\ UNCHANGED <<wkVars, cvVars, csvVars, rdVars, anVars, snVars>>
  /\ UNCHANGED <<seVars, vwVars, wnVars>>

\* the awaited promise has settled: the rest of the iteration (result and
\* progress event, or the catch block), then the next iteration or the return
BgResume ==
  /\ bgPc = "await"
  /\ Settled(promise[bgJob])
  /\ IF promise[bgJob] = "resolved"
     THEN \E r \in WorkerResults(bgMaxRows) :
            LET fs == bgFiles \o [k \in 1..Len(r.files) |->
                                    [sheet |-> bgSheet, rows |-> r.files[k]]]
                total == bgTotalRows + r.totalRows
            IN  /\ bgFiles' = fs
                /\ bgTotalRows' = total
                /\ bgEvents' = Append(bgEvents,
                                      [completed |-> Completed(fs, bgSheet),
                                       total |-> bgTotal,
                                       totalRows |-> total,
                                       finished |-> bgSheet,
                                       converted |-> bgSheet - Len(bgErrors)])
                /\ UNCHANGED bgErrors
                /\ BgContinue(fs, total, bgErrors)
     ELSE /\ bgErrors' = Append(bgErrors, bgSheet)
          /\ UNCHANGED <<bgFiles, bgTotalRows, bgEvents>>
          /\ BgContinue(bgFiles, bgTotalRows, Append(bgErrors, bgSheet))
  /\ UNCHANGED <<bgTotal, bgMaxRows>>
  /\ UNCHANGED <<wkVars, cvVars, csvVars, rdVars, anVars, snVars>>
  /\ UNCHANGED <<seVars, vwVars, wnVars>>

\* cancel-excel-processing: cancelWorker(workerId) for a given id, else
\* cancelAllWorkers()
cancelExcelProcessing ==
  \E workerId \in {0} \cup JobIds :
    IF workerId # 0 THEN cancelWorker(workerId) ELSE cancelAllWorkers

NextBackground ==
  \/ BgConvertFile
  \/ BgResume
  \/ \E i \in JobIds : WorkerSendSuccess(i)
  \/ \E i \in JobIds : WorkerSendError(i)
  \/ \E i \in JobIds : OnMessage(i)
  \/ \E i \in JobIds : OnExit(i)
  \/ cancelExcelProcessing

\* ------------------------------- convertSheetStreamingExcelJS (main.js)
SeInit ==
  /\ sePc = "idle"
  /\ seMaxRows = 0
  /\ seSeen = 0
  /\ nonEmptyRowCount = 0
  /\ seFileIndex = 1
  /\ currentFileRows = 0
  /\ writeStream = FALSE
  /\ filesCreated = <<>>
  /\ seWritten = <<>>

\* getWriteStream(): !writeStream || (maxRows && currentFileRows >= maxRows)
NewFileDue(stream, maxRows, fileRows) ==
  ~stream \/ (maxRows # 0 /\ fileRows >= maxRows)

\* convertSheetStreamingExcelJS up to worksheet.eachRow: the workbook is
\* read and the worksheet looked up
StreamOpen ==
  /\ sePc = "idle"
  /\ \E mr \in 0..MaxRowLimit, found \in BOOLEAN :
       /\ seMaxRows' = mr
       /\ sePc' = IF found THEN "rows" ELSE "thrown"
  /\ UNCHANGED <<seSeen, nonEmptyRowCount, seFileIndex, currentFileRows,
                 writeStream, filesCreated, seWritten>>
  /\ UNCHANGED <<baseVars, bgVars, vwVars, wnVars>>

\* the eachRow callback for one row: rows without content are skipped; the
\* counters are incremented, getWriteStream() may start a new file, the row
\* is written and the last record's rows is set to currentFileRows
StreamRow ==
  /\ sePc = "rows"
  /\ seSeen < MaxStreamRows
  /\ seSeen' = seSeen + 1
  /\ \E hasContent \in BOOLEAN :
       IF ~hasContent
       THEN UNCHANGED <<nonEmptyRowCount, seFileIndex, currentFileRows,
                        writeStream, filesCreated, seWritten>>
       ELSE LET due == NewFileDue(writeStream, seMaxRows, currentFileRows + 1)
                index == IF due /\ writeStream THEN seFileIndex + 1
                         ELSE seFileIndex
                fileRows == IF due /\ writeStream THEN 0
                            ELSE currentFileRows + 1
                part == IF seMaxRows # 0 /\ index > 1 THEN index ELSE OutputPath
                recs == IF due
                        THEN Append(filesCreated, [part |-> part, rows |-> 0])
                        ELSE filesCreated
                written == IF due THEN Append(seWritten, 0) ELSE seWritten
            IN  /\ nonEmptyRowCount' = nonEmptyRowCount + 1
                /\ seFileIndex' = index
                /\ currentFileRows' = fileRows
                /\ writeStream' = TRUE
                /\ filesCreated' = [recs EXCEPT ![Len(recs)].rows = fileRows]
                /\ seWritten' = [written EXCEPT ![Len(written)] = @ + 1]
  /\ UNCHANGED <<sePc, seMaxRows>>
  /\ UNCHANGED <<baseVars, bgVars, vwVars, wnVars>>

\* after eachRow: the last stream is ended and { totalRows: nonEmptyRowCount,
\* files: filesCreated } returned
StreamReturn ==
  /\ sePc = "rows"
  /\ sePc' = "returned"
  /\ writeStream' = FALSE
  /\ UNCHANGED <<seMaxRows, seSeen, nonEmptyRowCount, seFileIndex,
                 currentFileRows, filesCreated, seWritten>>
  /\ UNCHANGED <<baseVars, bgVars, vwVars, wnVars>>

NextStreaming ==
  \/ StreamOpen
  \/ StreamRow
  \/ StreamReturn

\* ------------------------------------------ viewer window (viewer.js)
\* const pageSize = 100
ViewerPageSize == 100

\* totalRows a file info can report: the multiples of the page size up to
\* MaxViewerPages pages, and one row more than each
RowTotals ==
  {k * ViewerPageSize + d : k \in 0..(MaxViewerPages - 1), d \in {0, 1}}
    \cup {MaxViewerPages * ViewerPageSize}

\* Math.ceil(totalRowCount / pageSize)
TotalPagesCount(total) == (total + ViewerPageSize - 1) \div ViewerPageSize

NoPageRequest == [op |-> "none", page |-> 1, startRow |-> 0]

VwInit ==
  /\ vwFile = 0
  /\ vwSheet = 0
  /\ currentPageNum = 1
  /\ totalRowCount = 0
  /\ vwRequest = NoPageRequest

\* loadPage(pageNum) called from op: viewerReadPage((pageNum - 1) * pageSize,
\* pageSize); currentPageNum is set when the result has success
LoadPage(op, pageNum, success) ==
  /\ vwRequest' = [op |-> op, page |-> pageNum,
                   startRow |-> (pageNum - 1) * ViewerPageSize]
  /\ currentPageNum' = IF success THEN pageNum ELSE currentPageNum

\* loadData() called from op with currentPageNum at pageNum: totalRowCount
\* from viewerGetFileInfo when it has success, then loadPage(currentPageNum)
LoadData(op, pageNum) ==
  \E infoOk \in BOOLEAN, n \in RowTotals, success \in BOOLEAN :
    /\ totalRowCount' = IF infoOk THEN n ELSE totalRowCount
    /\ LoadPage(op, pageNum, success)

\* openFile() / initializeFile(filePath): on success currentFile is set, the
\* first worksheet of a workbook selected and loaded; a CSV is loaded directly
VwInitializeFile ==
  /\ \E f \in Files, success \in BOOLEAN, sheets \in 0..MaxSheetNames :
       IF ~success
       THEN UNCHANGED vwVars
       ELSE /\ vwFile' = f
            /\ vwSheet' = IF sheets > 0 THEN 1 ELSE vwSheet
            /\ LoadData("openFile", currentPageNum)
  /\ UNCHANGED <<baseVars, bgVars, seVars, wnVars>>

\* onWorksheetChange(): currentSheet = selectedSheet; currentPageNum = 1;
\* loadWorksheet()
VwWorksheetChange ==
  /\ vwFile # 0
  /\ \E selectedSheet \in SheetNames :
       /\ vwSheet' = selectedSheet
       /\ LoadData("worksheetChange", 1)
  /\ UNCHANGED vwFile
  /\ UNCHANGED <<baseVars, bgVars, seVars, wnVars>>

\* navigateToPage(pageNum), from the previous and next buttons
VwNavigateToPage ==
  /\ \E pageNum \in {currentPageNum - 1, currentPageNum + 1},
        success \in BOOLEAN :
       /\ ~(pageNum < 1 \/ pageNum > TotalPagesCount(totalRowCount))
       /\ pageNum # currentPageNum
       /\ LoadPage("navigateToPage", pageNum, success)
  /\ UNCHANGED <<vwFile, vwSheet, totalRowCount>>
  /\ UNCHANGED <<baseVars, bgVars, seVars, wnVars>>

NextViewer ==
  \/ VwInitializeFile
  \/ VwWorksheetChange
  \/ VwNavigateToPage

\* ----------------------------- viewer windows on the one streamingReader
Windows == 1..MaxWindows

NoCall == [window |-> 0, call |-> "none", served |-> 0]

WnInit ==
  /\ wnFile = [w \in Windows |-> 0]
  /\ wnLast = NoCall

\* window w opens a file: viewer-init-file; the window has the file when the
\* result has success
WnInitFile(w) ==
  /\ InitFileHandler
  /\ wnFile' = [wnFile EXCEPT ![w] = IF rdLast'.ok THEN rdLast'.arg ELSE 0]
  /\ wnLast' = [window |-> w, call |-> "initFile", served |-> 0]
  /\ UNCHANGED <<mgrVars, wkVars, cvVars, csvVars, anVars, snVars>>
  /\ UNCHANGED <<bgVars, seVars, vwVars>>

\* window w asks for a page: viewer-read-page on streamingReader
WnReadPage(w) ==
  /\ wnFile[w] # 0
  /\ ReadPageHandler
  /\ wnLast' = [window |-> w, call |-> "readPage", served |-> currentFile]
  /\ UNCHANGED wnFile
  /\ UNCHANGED <<mgrVars, wkVars, cvVars, csvVars, anVars, snVars>>
  /\ UNCHANGED <<bgVars, seVars, vwVars>>

\* window w asks for the file info: viewer-get-file-info on streamingReader
WnGetFileInfo(w) ==
  /\ wnFile[w] # 0
  /\ GetFileInfoHandler
  /\ wnLast' = [window |-> w, call |-> "getFileInfo", served |-> currentFile]
  /\ UNCHANGED wnFile
  /\ UNCHANGED <<mgrVars, wkVars, cvVars, csvVars, anVars, snVars>>
  /\ UNCHANGED <<bgVars, seVars, vwVars>>

NextWindows ==
  \/ \E w \in Windows : WnInitFile(w)
  \/ \E w \in Windows : WnReadPage(w)
  \/ \E w \in Windows : WnGetFileInfo(w)

Init ==
  /\ MgrInit /\ WkInit /\ CvInit /\ CsvInit /\ RdInit /\ AnInit /\ SnInit
  /\ BgInit /\ SeInit /\ VwInit /\ WnInit

Next ==
  \/ processExcelFile
  \/ \E i \in JobIds : WorkerSendProgress(i)
  \/ \E i \in JobIds : WorkerSendWorksheets(i)
  \/ \E i \in JobIds : WorkerSendSuccess(i)
  \/ \E i \in JobIds : WorkerSendError(i)
  \/ \E i \in JobIds : WorkerUncaught(i)
  \/ \E i \in JobIds : WorkerCrash(i)
  \/ \E i \in JobIds : OnMessage(i)
  \/ \E i \in JobIds : OnError(i)
  \/ \E i \in JobIds : OnExit(i)
  \/ \E id \in JobIds : cancelWorker(id)
  \/ cancelAllWorkers

Spec == Init /\ [][Next]_vars

SpecWorker == Init /\ [][NextWorker]_vars

SpecConvert == Init /\ [][NextConvert]_vars

SpecCsv == Init /\ [][NextCsv]_vars

SpecReader == Init /\ [][NextReader]_vars

SpecRequest == Init /\ [][NextRequest]_vars

SpecAnalyze == Init /\ [][NextAnalyze]_vars

SpecSanitize == Init /\ [][NextSanitize]_vars

SpecBackground == Init /\ [][NextBackground]_vars

SpecStreaming == Init /\ [][NextStreaming]_vars

SpecViewer == Init /\ [][NextViewer]_vars

SpecWindows == Init /\ [][NextWindows]_vars

TypeOK ==
  /\ Range(workers) \subseteq JobIds
  /\ currentWorkerId \in 0..MaxJobs
  /\ \A i \in JobIds : promise[i] \in {"none", "pending", "resolved", "rejected"}

\* ------------------------------------------------------------- claims
Terminal(i) == Settled(promise[i]) \/ cancelled[i] > 0

\* terminal outcomes the caller has been given for job i
Outcomes(i) ==
  (IF promise[i] = "resolved" THEN {"completed"} ELSE {})
    \cup (IF promise[i] = "rejected" THEN {"failed"} ELSE {})
    \cup (IF cancelled[i] > 0 THEN {"cancelled"} ELSE {})

\* C1: every job gets at most one terminal outcome among completed, failed
\* and cancelled (a cancelled job is not also failed), and no progress or
\* worksheets event is emitted for it after that outcome.
C1_SingleTerminalOutcome ==
  \A i \in JobIds :
    /\ Cardinality(Outcomes(i)) <= 1
    /\ ~afterCancel[i]
    /\ ~afterSettle[i]

\* C2: once cancelWorker(id) has cancelled a job, no progress or worksheets
\* event for that id is emitted any more, and exactly one 'cancelled' event
\* exists for it.
C2_NoEventsAfterCancel ==
  \A i \in JobIds : cancelled[i] > 0 => (cancelled[i] = 1 /\ ~afterCancel[i])

\* C3: within one job the percent values of successive 'progress' messages
\* never decrease and stay within 0..100, on every path of getWorksheets and
\* of convertToCSV.
C3_ProgressMonotone ==
  /\ \A k \in 1..Len(ProgressLog) :
       ProgressLog[k].progress >= 0 /\ ProgressLog[k].progress <= 100 * Scale
  /\ \A k \in 1..(Len(ProgressLog) - 1) :
       ProgressLog[k].progress <= ProgressLog[k + 1].progress

\* C4: the caller of processExcelFile holds the job id while the job is
\* still pending, so that it can cancel the job by id.
C4_IdReturnedOnSubmit ==
  \A i \in JobIds : promise[i] = "pending" => idReturned[i]

\* C5: cancelWorker(id) for an id that is not in the live-job table changes
\* nothing: no event, no termination, table and id counter as before.
C5_CancelUnknownIsNoOp ==
  [][(lastOp'.op = "cancelWorker" /\ lastOp'.found = 0)
       => UNCHANGED <<workers, currentWorkerId, promise, idReturned, cancelled,
                      afterCancel, afterSettle, chan, wstate, issued>>]_vars

C5_Witness ==
  /\ lastOp = Op("cancelWorker", 0)
  /\ workers = <<>>
  /\ currentWorkerId = MaxJobs
  /\ \E i \in JobIds : promise[i] = "resolved"
  /\ \E i \in JobIds : cancelled[i] = 1

\* C6: cancelAllWorkers() empties the live-job table, terminates the worker
\* of every job that was live and emits exactly one 'cancelled' event for
\* each of them and none for any other id.
C6_CancelAllCancelsEveryLiveJob ==
  [][lastOp'.op = "cancelAllWorkers"
       => /\ workers' = <<>>
          /\ \A i \in JobIds :
               IF HasWorker(workers, i)
               THEN /\ wstate'[i] \notin {"running", "idle"}
                    /\ cancelled'[i] = cancelled[i] + 1
               ELSE /\ wstate'[i] = wstate[i]
                    /\ cancelled'[i] = cancelled[i]]_vars

C6_Witness ==
  /\ lastOp = Op("cancelAllWorkers", 2)
  /\ workers = <<>>
  /\ \A i \in 1..2 : cancelled[i] = 1 /\ wstate[i] = "exiting"

\* C7: a fault of job i (an 'error' message, a worker 'error' event, a
\* non-zero exit) settles only job i's promise and removes only job i's
\* entry; every other job keeps its entry, its promise state, its worker and
\* its undelivered messages.
C7_FaultIsolation ==
  [][\A i \in JobIds :
       (\/ OnError(i)
        \/ OnExit(i)
        \/ (chan[i] # <<>> /\ Head(chan[i]) = "error" /\ OnMessage(i)))
       => \A j \in JobIds \ {i} :
            /\ HasWorker(workers', j) <=> HasWorker(workers, j)
            /\ promise'[j] = promise[j]
            /\ wstate'[j] = wstate[j]
            /\ chan'[j] = chan[j]]_vars

C7_Witness ==
  \E i, j \in JobIds :
    /\ i # j
    /\ promise[i] = "rejected" /\ cancelled[i] = 0
    /\ HasWorker(workers, j) /\ promise[j] = "pending"
    /\ wstate[j] = "running" /\ chan[j] # <<>>

\* C8: job ids are handed out strictly increasing in submission order, so
\* none is ever reused, whatever happened to earlier jobs.
C8_IdsStrictlyIncreasing ==
  \A k \in 1..(Len(issued) - 1) : issued[k] < issued[k + 1]

C8_Witness ==
  /\ Len(issued) = 2
  /\ workers = <<issued[2]>>
  /\ Terminal(issued[1])

\* C9: the live-job table holds exactly the submitted jobs that have no
\* terminal outcome yet, each once, and no job whose worker has exited.
C9_TableIsLiveJobs ==
  /\ Range(workers) = {i \in Range(issued) : ~Terminal(i)}
  /\ Len(workers) = Cardinality(Range(workers))
  /\ \A i \in JobIds : wstate[i] = "exited" => ~HasWorker(workers, i)

C9_Witness ==
  \E i, j \in JobIds :
    /\ wstate[i] = "exited" /\ promise[i] = "rejected"
    /\ HasWorker(workers, j) /\ ~Terminal(j)

\* C10: a convert request that passed validation is reported failed only if
\* every selected worksheet failed: with at least one worksheet converted, by
\* whichever tier, the result has success: true.
C10_FailedOnlyIfAllFailed ==
  (cvPc = "done" /\ cvTotal > 0 /\ converted >= 1) => cvResult.success

\* C11: in a multi-worksheet conversion every selected worksheet is attempted
\* exactly once, in the selected order, whatever happened to earlier ones;
\* each failed worksheet adds exactly one entry to errors; and when some but
\* not all worksheets failed the result has success: true with a non-empty
\* errors array.
C11_PartialFailureReported ==
  /\ \A k \in 1..Len(attempts) : attempts[k] = k
  /\ \A k \in 1..(Len(errors) - 1) : errors[k] < errors[k + 1]
  /\ Range(errors) \subseteq Range(attempts)
  /\ cvPc = "loop" => Len(errors) + converted = Len(attempts)
  /\ (cvPc = "done" /\ cvTotal > 0)
       => /\ Len(attempts) = cvTotal
          /\ (Len(errors) > 0 /\ Len(errors) < cvTotal)
               => (cvResult.success /\ cvResult.errors = errors)

\* C12: a worksheet all of whose rows are empty is a worksheet-scoped error:
\* no adapter of converter.js returns a result for it, so it adds no file
\* record and no rows (checked for the in-memory and the streaming adapter).
C12_EmptyWorksheetIsError ==
  (lastSheet.state = "ok" /\ Range(lastSheet.tiers) \subseteq {"A", "B"})
    => NonEmptyCount(lastSheet.rows) > 0

\* C13: for one worksheet the adapters are invoked in the order A, B, C: B
\* only after A failed, C only after B failed (B counts as failed when
\* ExcelJS could not be loaded), none after an adapter succeeded.
C13_TierOrder ==
  LET t == lastSheet.tiers IN
  /\ Len(t) > 0 => t[1] = "A"
  /\ \A k \in 2..Len(t) :
       /\ t[k] # "A"
       /\ t[k] = "B" => t[k - 1] = "A"
       /\ t[k] = "C" => (t[k - 1] = "B" \/ ~excelJSLoaded)

\* C14: tier transparency: when the streaming adapter returns a result for a
\* worksheet after the in-memory adapter failed on it, the result is the one
\* the in-memory adapter returns for the same rows: same totalRows, same
\* number of files, same row count per file.
C14_TierTransparency ==
  (/\ lastSheet.state = "ok"
   /\ lastSheet.tiers = <<"A", "B">>
   /\ NonEmptyCount(lastSheet.rows) > 0)
    => /\ lastSheet.totalRows = XLSXResult(lastSheet.rows).totalRows
       /\ lastSheet.files = XLSXResult(lastSheet.rows).files

\* the writer of the worker thread has returned for a worksheet of at least
\* one non-empty row
WriterReturned ==
  pc = "sendSuccess" /\ options.operation = "convertToCSV" /\ Len(rows) >= 1

C16_FileNaming ==
  WriterReturned
    => /\ fileNames[1] = OutputPath
       /\ \A i \in 2..Len(fileNames) : fileNames[i] = getChunkFilePath(i)
       /\ getChunkFilePath(1) \notin Range(fileNames)

\* C17: with neither a row limit nor a size limit, a worksheet of N >= 1
\* non-empty rows is written to exactly one file whose recorded row count is N.
C17_NoLimitSingleFile ==
  (WriterReturned /\ options.maxRows = 0 /\ options.maxFileSize = 0)
    => files = <<Len(rows)>>

C17_Witness ==
  /\ WriterReturned
  /\ options.maxRows = 0 /\ options.maxFileSize = 0
  /\ Len(rows) = 2
  /\ method = "XLSX"
  /\ files = <<2>>

\* C18: CSV round trip: a row of string cells over comma, double quote,
\* newline and an ordinary character, serialized with the writer's quoting
\* rule and joined with commas, is parsed back by parseCsvLine into exactly
\* the original cell values.
C18_CsvRoundTrip ==
  (csvPc = "parsed" /\ \A k \in 1..Len(csvRow) : csvRow[k].t = "string")
    => csvParsed = [k \in 1..Len(csvRow) |-> csvRow[k].s]

C18_Witness ==
  /\ csvPc = "parsed"
  /\ csvWriter = "escapeCSVCell"
  /\ csvRow = <<Str(<<",", "\"">>), Str(<<"\n", "a">>)>>
  /\ csvParsed = <<csvRow[1].s, csvRow[2].s>>

\* C19: a cell is serialized to the empty string only when it is absent,
\* undefined, null or the empty string; every other value that needs no
\* quoting, the number 0 and the boolean false included, is written as its
\* own text.
C19_CellSerialization ==
  csvPc # "idle"
    => \A k \in 1..Len(csvRow) :
         LET c == csvRow[k]
             blank == \/ c.t \in {"absent", "undefined", "null"}
                      \/ (c.t = "string" /\ c.s = <<>>)
         IN  /\ csvCells[k] = <<>> => blank
             /\ (~blank /\ ~NeedsQuoting(ToText(c))) => csvCells[k] = ToText(c)

\* C20: on an initialized session readPage(startRow, pageSize) with
\* startRow >= 0 and pageSize >= 1 returns exactly
\* min(pageSize, max(0, totalRows - startRow)) rows numbered consecutively
\* from startRow + 1, reports the session's totalRows, and has hasMore equal
\* to (startRow + number of rows returned) < totalRows.
C20_ReadPage ==
  rdArgs.pageSize >= 1
    => LET n == Min(rdArgs.pageSize, Max(0, totalRows - rdArgs.startRow)) IN
       /\ Len(page.rows) = n
       /\ \A k \in 1..n : page.rows[k] = rdArgs.startRow + k
       /\ page.startRow = rdArgs.startRow
       /\ page.totalRows = totalRows
       /\ page.hasMore = ((rdArgs.startRow + n) < totalRows)

C20_Witness ==
  /\ fileType = "csv"
  /\ fileLines = 5
  /\ totalRows = 4
  /\ rdArgs = [startRow |-> 3, pageSize |-> 2]
  /\ page.rows = <<4>>
  /\ page.hasMore = FALSE

C22_OpenByExtension ==
  (rdLast.op = "viewerInitFile" /\ rdLast.status = "file")
    => /\ rdLast.ext = ".csv"
            => /\ rdLast.ok
               /\ fileType = "csv"
               /\ columns = (IF fileLines >= 1 THEN rdLast.arg ELSE 0)
               /\ totalRows = Max(0, fileLines - 1)
       /\ (rdLast.ext \in {".xlsx", ".xls", ".xlsm"} /\ rdLast.ok)
            => fileType = "excel"

\* C23: close() leaves the session cleared however often it is called;
\* on a closed session readPage and selectSheet fail with a not-initialized
\* error without running a parser or the external engine, and getFileInfo
\* returns no session data.
C23_ClosedSession ==
  /\ rdLast.op = "close" => Cur = Closed
  /\ (rdPc = "initialized" /\ currentFile = 0)
       => /\ rdLast.op \in {"readPage", "setExcelSheet"}
               => /\ ~rdLast.ok
                  /\ rdLast.error = "No file initialized"
                  /\ rdLast.calls = <<>>
          /\ rdLast.op = "getFileInfo" => rdLast.info = NoInfo

\* C24: a setExcelSheet(name) that fails leaves currentSheet, totalRows and
\* columns exactly as they were; one that succeeds leaves all three
\* describing the sheet it was called for.
C24_SelectSheetAtomic ==
  [][rdLast'.op = "setExcelSheet"
       => IF rdLast'.ok
          THEN /\ currentSheet' = rdLast'.arg
               /\ columns' = rdLast'.arg
               /\ totalRows' = TotalRowsOf(fileLines')
          ELSE UNCHANGED <<currentSheet, totalRows, columns>>]_vars

C24_Witness ==
  /\ rdLast.op = "setExcelSheet"
  /\ ~rdLast.ok
  /\ rdLast.arg = 2
  /\ rdLast.calls = <<"xlsx", "python">>
  /\ currentSheet = 1
  /\ columns = 1
  /\ totalRows = 4

\* C25: in setExcelSheet a file above 200 MiB is handled by the external
\* engine only; otherwise the in-memory parser runs first and the engine
\* only after it failed; the parser never runs after the engine, and the
\* engine runs at most once per call.
C25_EngineChoice ==
  (rdLast.op = "setExcelSheet" /\ currentFile # 0)
    => LET c == rdLast.calls IN
       /\ rdLast.big => \A k \in 1..Len(c) : c[k] = "python"
       /\ ~rdLast.big => (Len(c) >= 1 /\ c[1] = "xlsx")
       /\ \A j, k \in 1..Len(c) : (j < k /\ c[j] = "python") => c[k] # "xlsx"
       /\ Cardinality({k \in 1..Len(c) : c[k] = "python"}) <= 1

\* C26: at most one reader session is open at any time: a successful
\* viewer-init-file for file B while a session on file A is active closes A's
\* session, and readPage, selectSheet and getFileInfo afterwards refer to B.
C26_SingleSession ==
  /\ liveReaders <= 1
  /\ session # 0
       => /\ rdPc = "initialized"
          /\ liveReaders = 1
          /\ currentFile = session
          /\ rdLast.op = "getFileInfo" => rdLast.info.filePath = session
          /\ (rdLast.op = "viewerInitFile" /\ rdLast.ok) => rdLast.arg = session

C26_Witness ==
  /\ rdLast.op = "viewerInitFile"
  /\ rdLast.ok
  /\ rdLast.prev = 1
  /\ rdLast.arg = 2
  /\ session = 2
  /\ currentFile = 2
  /\ liveReaders = 1

\* the 'Created <path> with <n> rows' lines of what the engine printed, in
\* order, as the rows they report
RECURSIVE CreatedRows(_)
CreatedRows(out) ==
  IF out = <<>> THEN <<>>
  ELSE IF Head(out).kind = "Created"
       THEN <<Head(out).n>> \o CreatedRows(Tail(out))
       ELSE CreatedRows(Tail(out))

\* the engine printed decimal row counts and exactly one 'SUCCESS: N rows'
EngineOutput(out) ==
  /\ \A k \in 1..Len(out) : ~out[k].literal
  /\ Cardinality({k \in 1..Len(out) : out[k].kind = "SUCCESS"}) = 1

\* C29: when the engine exits with code 0 after printing one line
\* 'SUCCESS: N rows' and k lines 'Created <path> with <n> rows',
\* convertWithPython resolves with totalRows = N and exactly those k file
\* records in order; when it exits with another code, convertWithPython
\* rejects and no file record is produced.
C29_EngineResult ==
  /\ (lastSheet.code = 0 /\ EngineOutput(lastSheet.stdout))
       => /\ lastSheet.state = "ok"
          /\ \E k \in 1..Len(lastSheet.stdout) :
                /\ lastSheet.stdout[k].kind = "SUCCESS"
                /\ lastSheet.totalRows = lastSheet.stdout[k].n
          /\ lastSheet.files = CreatedRows(lastSheet.stdout)
  /\ lastSheet.code \notin {NaN, 0}
       => (lastSheet.state = "failed" /\ lastSheet.files = <<>>)

\* C27: the complexity class of a worksheet descriptor follows from its
\* estimated row count n: n < 1000 gives small, 1000 <= n < 10000 gives
\* medium, n >= 10000 gives large, on the XLSX and on the ExcelJS path.
C27_ComplexityLadder ==
  worksheetInfo # NoInfoYet
    => LET n == worksheetInfo.estimatedRows IN
       worksheetInfo.complexity =
         (IF n < 1000 THEN "small" ELSE IF n < 10000 THEN "medium" ELSE "large")

\* C27 as amended: n <= 1000 gives small, 1000 < n <= 10000 gives medium,
\* n > 10000 gives large, on the XLSX and on the ExcelJS path.
C27_ComplexityLadderAmended ==
  worksheetInfo # NoInfoYet
    => LET n == worksheetInfo.estimatedRows IN
       worksheetInfo.complexity =
         (IF n <= 1000 THEN "small" ELSE IF n <= 10000 THEN "medium" ELSE "large")

C27_Witness ==
  /\ worksheetInfo.method = "ExcelJS"
  /\ worksheetInfo.estimatedRows = 10000
  /\ worksheetInfo.complexity = "medium"

\* C28: a get-worksheets or convert-file request that fails validation is
\* answered with success: false at once and creates no job: no worker is
\* started, the id counter and the table of live workers stay as they were,
\* and no worksheet is converted or output file recorded.
C28_RejectedRequestCreatesNoJob ==
  [][(rejected' # NoRequest /\ rejected' # rejected)
       => /\ UNCHANGED <<workers, currentWorkerId, wstate, promise, issued, chan>>
          /\ UNCHANGED <<attempts, allFilesCreated, converted, totalRowsAll>>
          /\ rejected'.handler = "convert-file"
               => (cvPc' = "done" /\ ~cvResult'.success)]_vars

C28_Witness ==
  /\ rejected = Refused("get-worksheets", "Invalid file type")
  /\ currentWorkerId = 1
  /\ workers = <<1>>
  /\ wstate[1] = "running"

\* the name has none of the removed characters and no whitespace at
\* either end
CleanName(x) ==
  /\ x # <<>>
  /\ \A k \in 1..Len(x) : x[k] \notin Forbidden
  /\ x[1] \notin Whitespace
  /\ x[Len(x)] \notin Whitespace

\* C30: sanitizeSheetName either throws or returns a non-empty string with
\* none of < > : " / \ | ? * and no leading or trailing whitespace; a name
\* that is already such a string is returned unchanged; applied to its own
\* result it returns that result.
C30_SanitizeSheetName ==
  snResult # NotCalled
    => /\ snResult.threw \/ CleanName(snResult.s)
       /\ (snInput.t = "string" /\ CleanName(snInput.s))
            => (~snResult.threw /\ snResult.s = snInput.s)
       /\ snAgain # NotCalled => snAgain = snResult

C30_Witness ==
  /\ snInput = [t |-> "string", s |-> <<" ", "a", "?">>]
  /\ snResult = Returned(<<"a">>)
  /\ snAgain = Returned(<<"a">>)

\* the accumulated size of n rows of rs after the first from rows
RECURSIVE SumSizes(_, _, _)
SumSizes(rs, from, n) ==
  IF n = 0 THEN 0 ELSE rs[from + 1] + SumSizes(rs, from + 1, n - 1)

\* the rows that precede file record i
RECURSIVE RowsBefore(_, _)
RowsBefore(fs, i) == IF i <= 1 THEN 0 ELSE fs[i - 1] + RowsBefore(fs, i - 1)

\* C31: with a byte limit M, before a row is appended the accumulator is
\* flushed to a new file iff it is non-empty and accumulated size + the
\* row's serialized size > M (no row limit being set); every file record
\* with more than one row has accumulated size <= M, a record exceeds M only
\* when it holds one row that alone exceeds M, and no record has zero rows.
C31_SizeLimitSplitting ==
  [][(options'.maxFileSize >= 1 /\ pc' \in {"splitLoop", "sendSuccess", "done"})
       => LET M == options'.maxFileSize * MiB IN
          /\ (pc = "splitLoop" /\ loopI' = loopI + 1 /\ options.maxRows = 0)
               => ((Len(files') = Len(files) + 1)
                     <=> (currentRows > 0 /\ currentSize + rows[loopI + 1] > M))
          /\ \A i \in 1..Len(files') :
               LET size == SumSizes(rows', RowsBefore(files', i), files'[i]) IN
               /\ files'[i] >= 1
               /\ files'[i] > 1 => size <= M
               /\ size > M => files'[i] = 1]_vars

C31_Witness ==
  /\ WriterReturned
  /\ options.maxFileSize = 1 /\ options.maxRows = 0
  /\ rows = <<MiB \div 2, MiB \div 2, 3 * (MiB \div 2)>>
  /\ files = <<2, 1>>

\* C33: once a job has a terminal outcome its worker thread is no longer
\* running: no worker stays alive while absent from the live-job table, where
\* cancelAllWorkers() / shutdown() cannot reach it.
C33_WorkerStopped ==
  \A i \in JobIds :
    (Terminal(i) \/ ~HasWorker(workers, i)) => wstate[i] \notin {"running", "idle"}

\* C32: after cancelAllWorkers() or cancelWorker of the current worksheet's
\* job during a multi-worksheet background conversion, no job is submitted
\* for the remaining worksheets and no further file record is produced: the
\* worksheet whose job was cancelled is the last one submitted.
C32_CancelStopsConversion ==
  \A k \in 1..Len(issued) :
    cancelled[issued[k]] > 0
      => /\ Len(issued) = k
         /\ \A j \in 1..Len(bgFiles) : bgFiles[j].sheet <= k

\* C34: a readPage or getFileInfo issued by a viewer window is served from
\* the file that window opened last, whatever the other window called in
\* between.
C34_SessionPerViewer ==
  wnLast.call \in {"readPage", "getFileInfo"}
    => wnLast.served = wnFile[wnLast.window]

\* C35: a viewer-init-file that returns success: false, by validation or by
\* a failure of the analysis, leaves the reader state that readPage and
\* getFileInfo see exactly as it was before the call.
C35_InitAllOrNothing ==
  [][(rdLast'.op = "viewerInitFile" /\ ~rdLast'.ok)
       => UNCHANGED <<rdPc, rdFields>>]_vars

\* names a workbook can list: non-empty, without the characters Excel itself
\* refuses in a sheet name (: \ / ? *)
WorkbookNames ==
  {x \in NameStrings :
     /\ x # <<>>
     /\ \A k \in 1..Len(x) : x[k] \notin {":", "\\", "/", "?", "*"}}

\* C36: a worksheet name listed by get-worksheets and passed back to
\* convert-file is accepted by sanitizeSheetName and looked up under the same
\* name; the output file is named after the sanitized name, so two listed
\* names get distinct paths when each is left as it is.
C36_ListedNameRoundTrip ==
  (snResult # NotCalled /\ snInput.t = "string" /\ snInput.s \in WorkbookNames)
    => (~snResult.threw /\ snResult.s = snInput.s)

RECURSIVE SumRows(_)
SumRows(fs) == IF fs = <<>> THEN 0 ELSE Head(fs) + SumRows(Tail(fs))

\* C37: in the result of the worker's writer, of convert-file and of
\* convertSheetStreamingExcelJS, totalRows is the sum of the rows of the file
\* records returned, and the records of a worksheet are in row order.
C37_TotalRowsIsSumOfFiles ==
  /\ WriterReturned => Len(rows) = SumRows(files)
  /\ cvPc = "done" => totalRowsAll = SumRows(allFilesCreated)
  /\ sePc = "returned"
       => /\ nonEmptyRowCount
               = SumRows([k \in 1..Len(filesCreated) |-> filesCreated[k].rows])
          /\ \A k \in 1..(Len(filesCreated) - 1) :
               filesCreated[k].part < filesCreated[k + 1].part

\* C38: every 'conversion-progress' event of a multi-worksheet conversion has
\* completed = the number of worksheets finished so far (those converted, or
\* those the loop is through with, failed ones included), with
\* 0 <= completed <= total.
C38_ProgressCountsWorksheets ==
  \A j \in 1..Len(bgEvents) :
    /\ bgEvents[j].completed \in {bgEvents[j].converted, bgEvents[j].finished}
    /\ 0 <= bgEvents[j].completed
    /\ bgEvents[j].completed <= bgEvents[j].total

\* C39: every page request of the viewer window has a page number in
\* 1..max(1, ceil(totalRowCount / pageSize)), and the request that follows
\* the opening of a file or the choice of a sheet is for page 1.
C39_PageWithinRange ==
  vwRequest.op # "none"
    => /\ vwRequest.page \in 1..Max(1, TotalPagesCount(totalRowCount))
       /\ vwRequest.op \in {"openFile", "worksheetChange"} => vwRequest.page = 1

====
